---- MODULE Spec2Model ----
(***************************************************************************)
(* LifeRhythmAgent (agent.js): the connection lifecycle of the MCP client  *)
(* and the agentic loop of process(), with the decision service            *)
(* (anthropic.messages.create) and the MCP peer (mcpClient.callTool) as    *)
(* the environment.  Every await of the source is a position of pc.        *)
(* Further parts, each with a specification of its own: the environment    *)
(* connect() hands to the MCP subprocess (SpecEnv), formatDateContext      *)
(* (SpecDate), the command line of index.js (SpecCli) and the exchange     *)
(* rate widget (SpecWidget).                                               *)
(***************************************************************************)
EXTENDS Integers, Sequences, FiniteSets, TLC

\* ------------------------------------------------------------------------
\* Program constant
\* ------------------------------------------------------------------------
MAX_TURNS == 10

\* ------------------------------------------------------------------------
\* Bounds of the model
\* ------------------------------------------------------------------------
\* Client objects connect() may create
MaxClients == 2
\* environment choices per process() call that differ from the plain ones
\* (a response other than RespTool1, a peer result other than "r1")
MaxRich == 1

\* the process() call the caller has in flight
Procs == {1}

VARIABLES
    mcpClient,    \* this.mcpClient: 0 is null, else the id of a Client object
    tools,        \* this.tools
    cstate,       \* per Client object: state of its session with the peer
    nextClient,   \* id the next `new Client` gets
    lc,           \* position of the connect()/disconnect() call in flight
    connectedOk,  \* a connect() has resolved and no disconnect() since
    dres,         \* outcome of disconnect() while it is the last call made
    pc,           \* per process() call: its position
    messages,     \* per process() call: local `messages`
    actions,      \* per process() call: local `actions`
    turns,        \* per process() call: local `turns`
    cur,          \* per process() call: local `response`
    idx,          \* per process() call: index of `toolUse` in toolUseBlocks
    toolResults,  \* per process() call: local `toolResults`
    result,       \* per process() call: the value the promise resolved with
    err,          \* per process() call: the error the promise rejected with
    apiLog,       \* per process() call: requests received by messages.create
    bridgeCalls,  \* per process() call: arguments _callTool was called with
    peerCalls,    \* per process() call: requests received by mcpClient.callTool
    peerResults,  \* per process() call: results mcpClient.callTool resolved with
    extErr        \* per process() call: error an awaited operation rejected with

VARIABLES
    ambient,      \* per run: process.env, a key that is not set holds Undefined
    sheetIdArg,   \* the sheetId option given to the constructor
    estage,       \* per run: how far the agent of that run has got
    agentSheetId, \* per run: this.sheetId
    mcpEnv        \* per run: the env handed to StdioClientTransport

VARIABLES
    tz,           \* time zone of the host
    now,          \* the Date given to formatDateContext, hours since DayZero 00:00Z
    dateContext   \* what formatDateContext returned

VARIABLES
    argv,         \* how index.js was started
    cpc,          \* position of main()
    rl,           \* the readline interface of runInteractive
    exitCode,     \* exit code of the process, NotExited while it runs
    stdinLeft,    \* lines stdin may still deliver
    calls,        \* agent.process() calls made so far
    inflight,     \* agent.process() calls of line handlers not settled yet
    outcomes,     \* how the settled agent.process() calls ended, in order
    out,          \* what was written to the console, in order
    connRes,      \* how agent.connect() ended
    disconnects   \* agent.disconnect() calls made so far

VARIABLES
    currentRate,    \* let currentRate
    previousRate,   \* let previousRate
    chart,          \* let chart
    historicalData, \* let historicalData
    btn,            \* #refreshBtn: class 'loading' and text
    lastUpdate,     \* #lastUpdate text
    display,        \* #currentRate, #changeDisplay, #high24h, #low24h
    converter,      \* #usdInput, #cadInput and the listeners on #usdInput
    fetches,        \* per fetchRate() call: its position
    started,        \* fetchRate() calls made so far
    alerts,         \* alert() calls so far
    errorLogs,      \* console.error calls so far
    pushed,         \* rates given to historicalData.push, in order
    lastData,       \* what response.json() resolved with most recently
    varied          \* inputs so far that were not the plain ones

agentVars == <<mcpClient, tools, cstate, nextClient, lc, connectedOk, dres>>
procVars == <<pc, messages, actions, turns, cur, idx, toolResults, result, err>>
envVars == <<apiLog, bridgeCalls, peerCalls, peerResults, extErr>>
childVars == <<ambient, sheetIdArg, estage, agentSheetId, mcpEnv>>
dateVars == <<tz, now, dateContext>>
cliVars == <<argv, cpc, rl, exitCode, stdinLeft, calls, inflight, outcomes, out,
             connRes, disconnects>>
widgetVars == <<currentRate, previousRate, chart, historicalData, btn, lastUpdate,
                display, converter, fetches, started, alerts, errorLogs, pushed,
                lastData, varied>>
coreVars == <<agentVars, procVars, envVars>>
\* what the steps of one part leave alone
notCore == <<childVars, dateVars, cliVars, widgetVars>>
notChild == <<coreVars, dateVars, cliVars, widgetVars>>
notDate == <<coreVars, childVars, cliVars, widgetVars>>
notCli == <<coreVars, childVars, dateVars, widgetVars>>
notWidget == <<coreVars, childVars, dateVars, cliVars>>
vars == <<coreVars, childVars, dateVars, cliVars, widgetVars>>

\* ------------------------------------------------------------------------
\* Values
\* ------------------------------------------------------------------------
NoErr == [kind |-> "none", cap |-> 0]
\* new Error('Not connected to MCP server. Call connect() first.')
NotConnectedError == [kind |-> "NotConnected", cap |-> 0]
\* new Error(`Agent exceeded maximum turns (${MAX_TURNS}). ...`)
MaxTurnsExceededError == [kind |-> "MaxTurns", cap |-> MAX_TURNS]
\* rejections of anthropic.messages.create and of mcpClient.callTool
ApiErrors == {[kind |-> "ApiError", cap |-> 0]}
PeerErrors == {[kind |-> "PeerError", cap |-> 0]}

TextBlock(t) == [type |-> "text", text |-> t, id |-> 0, name |-> "", input |-> ""]
ToolUse(i, n, in) == [type |-> "tool_use", text |-> <<>>, id |-> i, name |-> n, input |-> in]

NoResponse == [stop_reason |-> "", content |-> <<>>]
RespTwoTexts == [stop_reason |-> "end_turn",
                 content |-> <<TextBlock(<<" ", "a">>), TextBlock(<<"b", " ">>)>>]
RespMaxTokens == [stop_reason |-> "max_tokens",
                  content |-> <<TextBlock(<<"c">>)>>]
RespEndWithTool == [stop_reason |-> "end_turn",
                    content |-> <<TextBlock(<<"e">>),
                                  ToolUse(9, "create_item", "inE")>>]
RespTool1 == [stop_reason |-> "tool_use",
              content |-> <<ToolUse(1, "create_item", "inA")>>]
RespTool2 == [stop_reason |-> "max_tokens",
              content |-> <<TextBlock(<<"t">>),
                            ToolUse(1, "create_item", "inA"),
                            ToolUse(2, "add_reminder", "inB")>>]

\* what messages.create may resolve with
Responses == {RespTwoTexts, RespMaxTokens, RespEndWithTool, RespTool1, RespTool2}
\* what mcpClient.callTool may resolve with
ResultVals == {"r1", "r2"}
\* what the peer of Client c answers to listTools()
PeerTools(c) ==
    <<[name |-> "create_item", description |-> c, inputSchema |-> "S1"],
      [name |-> "add_reminder", description |-> c, inputSchema |-> "S2"]>>
Utterances == {"u1"}

\* ------------------------------------------------------------------------
\* Pure helpers of process()
\* ------------------------------------------------------------------------
\* response.content.filter(b => b.type === 'text')
TextBlocks(content) == SelectSeq(content, LAMBDA b : b.type = "text")
\* response.content.filter(b => b.type === 'tool_use')
ToolUseBlocks(content) == SelectSeq(content, LAMBDA b : b.type = "tool_use")

\* variant: only a response without tool_use blocks ends the loop
IsTerminal_NoToolsOnly(r) == Len(ToolUseBlocks(r.content)) = 0

\* response.stop_reason === 'end_turn' || toolUseBlocks.length === 0
IsTerminal(r) == r.stop_reason = "end_turn" \/ Len(ToolUseBlocks(r.content)) = 0

RECURSIVE Join_WithSpace(_)
\* variant: textBlocks.map(b => b.text).join(' ')
Join_WithSpace(blocks) ==
    IF blocks = <<>> THEN <<>>
    ELSE IF Tail(blocks) = <<>> THEN Head(blocks).text
    ELSE Head(blocks).text \o <<" ">> \o Join_WithSpace(Tail(blocks))

RECURSIVE Join(_)
\* textBlocks.map(b => b.text).join('')
Join(blocks) ==
    IF blocks = <<>> THEN <<>> ELSE Head(blocks).text \o Join(Tail(blocks))

RECURSIVE TrimStart(_)
TrimStart(s) ==
    IF s # <<>> /\ Head(s) = " " THEN TrimStart(Tail(s)) ELSE s

RECURSIVE TrimEnd(_)
TrimEnd(s) ==
    IF s # <<>> /\ s[Len(s)] = " " THEN TrimEnd(SubSeq(s, 1, Len(s) - 1)) ELSE s

\* String.prototype.trim
Trim(s) == TrimEnd(TrimStart(s))

\* JSON.stringify(result)
Stringify(r) == <<"json", r>>

\* tools.map(tool => ({name, description, input_schema: tool.inputSchema}))
MapTools(list) ==
    [i \in DOMAIN list |-> [name |-> list[i].name,
                            description |-> list[i].description,
                            input_schema |-> list[i].inputSchema]]

\* variant: turns < MAX_TURNS - 1
LoopGuard_Short(t) == t < MAX_TURNS - 1

\* variant: turns <= MAX_TURNS
LoopGuard_OffByOne(t) == t <= MAX_TURNS

\* turns < MAX_TURNS
LoopGuard(t) == t < MAX_TURNS

\* variant: the guard of _callTool is missing
NotConnected_NoGuard(client) == FALSE

\* !this.mcpClient
NotConnected(client) == client = 0

\* variant: actions.unshift(entry)
PushAction_Unshift(log, entry) == <<entry>> \o log

\* actions.push(entry)
PushAction(log, entry) == Append(log, entry)

\* variant: the loop over toolUseBlocks stops after the first block
MoreToolUses_FirstOnly(i, blocks) == FALSE

\* for (const toolUse of toolUseBlocks): another block follows block i
MoreToolUses(i, blocks) == i < Len(blocks)

\* variant: the request carries no tool descriptors
RequestTools_None(list) == <<>>

\* messages.create({..., tools: this.tools, messages})
RequestTools(list) == list

\* number of environment choices of call p so far that are not the plain ones
RichCount(p) ==
    Cardinality({i \in 1..Len(messages[p]) :
                    /\ messages[p][i].role = "assistant"
                    /\ messages[p][i].content # RespTool1.content})
    + Cardinality({i \in 1..Len(actions[p]) : actions[p][i].result # "r1"})

\* ------------------------------------------------------------------------
\* Initial state: `new LifeRhythmAgent()`, no call made yet
\* ------------------------------------------------------------------------
CoreInit ==
    /\ mcpClient = 0
    /\ tools = <<>>
    /\ cstate = [c \in 1..MaxClients |-> "unused"]
    /\ nextClient = 1
    /\ lc = "idle"
    /\ connectedOk = FALSE
    /\ dres = "none"
    /\ pc = [p \in Procs |-> "idle"]
    /\ messages = [p \in Procs |-> <<>>]
    /\ actions = [p \in Procs |-> <<>>]
    /\ turns = [p \in Procs |-> 0]
    /\ cur = [p \in Procs |-> NoResponse]
    /\ idx = [p \in Procs |-> 0]
    /\ toolResults = [p \in Procs |-> <<>>]
    /\ result = [p \in Procs |-> [response |-> <<>>, actions |-> <<>>]]
    /\ err = [p \in Procs |-> NoErr]
    /\ apiLog = [p \in Procs |-> <<>>]
    /\ bridgeCalls = [p \in Procs |-> <<>>]
    /\ peerCalls = [p \in Procs |-> <<>>]
    /\ peerResults = [p \in Procs |-> <<>>]
    /\ extErr = [p \in Procs |-> NoErr]

\* the parts a specification does not run stay as they are here
ChildOff ==
    /\ ambient = <<>> /\ sheetIdArg = "" /\ estage = <<>>
    /\ agentSheetId = <<>> /\ mcpEnv = <<>>
DateOff == tz = "" /\ now = 0 /\ dateContext = <<>>
CliOff ==
    /\ argv = "" /\ cpc = "" /\ rl = "" /\ exitCode = 0 /\ stdinLeft = 0
    /\ calls = 0 /\ inflight = 0 /\ outcomes = <<>> /\ out = <<>>
    /\ connRes = "" /\ disconnects = 0
WidgetOff ==
    /\ currentRate = 0 /\ previousRate = 0 /\ chart = <<>>
    /\ historicalData = <<>> /\ btn = <<>> /\ lastUpdate = <<>>
    /\ display = <<>> /\ converter = <<>> /\ fetches = <<>> /\ started = 0
    /\ alerts = 0 /\ errorLogs = 0 /\ pushed = <<>> /\ lastData = <<>>
    /\ varied = 0

Init == CoreInit /\ ChildOff /\ DateOff /\ CliOff /\ WidgetOff

\* ------------------------------------------------------------------------
\* connect() and disconnect()
\* ------------------------------------------------------------------------
\* The caller awaits each call on the agent before it makes the next one
\* (index.js: `await agent.connect()`, `await agent.process(input)`,
\* `await agent.disconnect()`): a call starts when no process() is in flight.
Quiescent == \A q \in DOMAIN pc : pc[q] = "idle"

\* connect(), up to `await this.mcpClient.connect(transport)`
ConnectStart ==
    /\ lc = "idle"
    /\ Quiescent
    /\ nextClient <= MaxClients
    /\ mcpClient' = nextClient
    /\ cstate' = [cstate EXCEPT ![nextClient] = "created"]
    /\ nextClient' = nextClient + 1
    /\ lc' = "connecting"
    /\ connectedOk' = FALSE
    /\ dres' = "none"
    /\ UNCHANGED <<tools, procVars, envVars>>
    /\ UNCHANGED notCore

\* the transport connected; connect() goes on to `await this.mcpClient.listTools()`
ConnectOk ==
    /\ lc = "connecting"
    /\ cstate' = [cstate EXCEPT ![mcpClient] = "open"]
    /\ lc' = "listing"
    /\ UNCHANGED <<mcpClient, tools, nextClient, connectedOk, dres, procVars, envVars>>
    /\ UNCHANGED notCore

\* the transport failed to connect; connect() rejects
ConnectFail ==
    /\ lc = "connecting"
    /\ lc' = "idle"
    /\ UNCHANGED <<mcpClient, tools, cstate, nextClient, connectedOk, dres, procVars, envVars>>
    /\ UNCHANGED notCore

\* listTools() resolved; this.tools is set and connect() resolves
ListToolsOk ==
    /\ lc = "listing"
    /\ tools' = MapTools(PeerTools(mcpClient))
    /\ lc' = "idle"
    /\ connectedOk' = TRUE
    /\ UNCHANGED <<mcpClient, cstate, nextClient, dres, procVars, envVars>>
    /\ UNCHANGED notCore

\* listTools() rejected; connect() rejects
ListToolsFail ==
    /\ lc = "listing"
    /\ lc' = "idle"
    /\ UNCHANGED <<mcpClient, tools, cstate, nextClient, connectedOk, dres, procVars, envVars>>
    /\ UNCHANGED notCore

\* disconnect(), up to `await this.mcpClient.close()`; returns at once when
\* this.mcpClient is null
DisconnectStart ==
    /\ lc = "idle"
    /\ Quiescent
    /\ IF mcpClient # 0
         THEN lc' = "closing" /\ dres' = "none"
         ELSE lc' = lc /\ dres' = "resolved"
    /\ UNCHANGED <<mcpClient, tools, cstate, nextClient, connectedOk, procVars, envVars>>
    /\ UNCHANGED notCore

\* variant: this.mcpClient is not reset after close()
CloseOk_KeepClient ==
    /\ lc = "closing"
    /\ cstate' = [cstate EXCEPT ![mcpClient] = "closed"]
    /\ lc' = "idle"
    /\ connectedOk' = FALSE
    /\ dres' = "resolved"
    /\ UNCHANGED <<mcpClient, tools, nextClient, procVars, envVars>>
    /\ UNCHANGED notCore

\* close() resolved: this.mcpClient = null
CloseOk ==
    /\ lc = "closing"
    /\ cstate' = [cstate EXCEPT ![mcpClient] = "closed"]
    /\ mcpClient' = 0
    /\ lc' = "idle"
    /\ connectedOk' = FALSE
    /\ dres' = "resolved"
    /\ UNCHANGED <<tools, nextClient, procVars, envVars>>
    /\ UNCHANGED notCore

\* close() rejected: disconnect() rejects, this.mcpClient keeps the client
CloseFail ==
    /\ lc = "closing"
    /\ lc' = "idle"
    /\ dres' = "rejected"
    /\ UNCHANGED <<mcpClient, tools, cstate, nextClient, connectedOk, procVars, envVars>>
    /\ UNCHANGED notCore

\* ------------------------------------------------------------------------
\* process()
\* ------------------------------------------------------------------------
\* variant: process() checks the connection on entry
Start_CheckOnEntry(p, input) ==
    /\ pc[p] = "idle"
    /\ lc = "idle"
    /\ Quiescent
    /\ messages' = [messages EXCEPT ![p] =
           <<[role |-> "user", content |-> <<"DATE CONTEXT", input>>]>>]
    /\ actions' = [actions EXCEPT ![p] = <<>>]
    /\ turns' = [turns EXCEPT ![p] = 0]
    /\ IF mcpClient = 0
         THEN /\ err' = [err EXCEPT ![p] = NotConnectedError]
              /\ pc' = [pc EXCEPT ![p] = "failed"]
         ELSE /\ err' = err
              /\ pc' = [pc EXCEPT ![p] = "loop"]
    /\ dres' = "none"
    /\ UNCHANGED <<mcpClient, tools, cstate, nextClient, lc, connectedOk, cur, idx, toolResults, result, envVars>>
    /\ UNCHANGED notCore

\* variant: let turns = 1
Start_TurnsFromOne(p, input) ==
    /\ pc[p] = "idle"
    /\ lc = "idle"
    /\ Quiescent
    /\ messages' = [messages EXCEPT ![p] =
           <<[role |-> "user", content |-> <<"DATE CONTEXT", input>>]>>]
    /\ actions' = [actions EXCEPT ![p] = <<>>]
    /\ turns' = [turns EXCEPT ![p] = 1]
    /\ pc' = [pc EXCEPT ![p] = "loop"]
    /\ dres' = "none"
    /\ UNCHANGED <<mcpClient, tools, cstate, nextClient, lc, connectedOk, cur, idx, toolResults, result, err, envVars>>
    /\ UNCHANGED notCore

\* process(input, now): the session is created
Start(p, input) ==
    /\ pc[p] = "idle"
    /\ lc = "idle"
    /\ Quiescent
    /\ messages' = [messages EXCEPT ![p] =
           <<[role |-> "user", content |-> <<"DATE CONTEXT", input>>]>>]
    /\ actions' = [actions EXCEPT ![p] = <<>>]
    /\ turns' = [turns EXCEPT ![p] = 0]
    /\ pc' = [pc EXCEPT ![p] = "loop"]
    /\ dres' = "none"
    /\ UNCHANGED <<mcpClient, tools, cstate, nextClient, lc, connectedOk, cur, idx, toolResults, result, err, envVars>>
    /\ UNCHANGED notCore

\* while (turns < MAX_TURNS) { turns++; await messages.create(...) } throw ...
LoopTop(p) ==
    /\ pc[p] = "loop"
    /\ IF LoopGuard(turns[p])
         THEN /\ turns' = [turns EXCEPT ![p] = turns[p] + 1]
              /\ apiLog' = [apiLog EXCEPT ![p] =
                     Append(apiLog[p], [nmessages |-> Len(messages[p]),
                                        tools |-> RequestTools(tools)])]
              /\ pc' = [pc EXCEPT ![p] = "awaitDecision"]
              /\ err' = err
         ELSE /\ err' = [err EXCEPT ![p] = MaxTurnsExceededError]
              /\ pc' = [pc EXCEPT ![p] = "failed"]
              /\ UNCHANGED <<turns, apiLog>>
    /\ UNCHANGED <<agentVars, messages, actions, cur, idx, toolResults, result,
                   bridgeCalls, peerCalls, peerResults, extErr>>
    /\ UNCHANGED notCore

\* variant: a non-terminal response of the last round allowed ends the call
\* with the max-turns error before any of its tools is invoked
DecisionResp_StopAtCap(p, r) ==
    /\ pc[p] = "awaitDecision"
    /\ (r \notin {RespTool1} /\ ~IsTerminal(r)) => RichCount(p) < MaxRich
    /\ cur' = [cur EXCEPT ![p] = r]
    /\ IF IsTerminal(r)
         THEN /\ result' = [result EXCEPT ![p] =
                     [response |-> Trim(Join(TextBlocks(r.content))),
                      actions |-> actions[p]]]
              /\ pc' = [pc EXCEPT ![p] = "returned"]
              /\ UNCHANGED <<messages, idx, toolResults, err>>
         ELSE IF ~LoopGuard(turns[p])
         THEN /\ err' = [err EXCEPT ![p] = MaxTurnsExceededError]
              /\ pc' = [pc EXCEPT ![p] = "failed"]
              /\ UNCHANGED <<messages, idx, toolResults, result>>
         ELSE /\ messages' = [messages EXCEPT ![p] =
                     Append(messages[p], [role |-> "assistant", content |-> r.content])]
              /\ toolResults' = [toolResults EXCEPT ![p] = <<>>]
              /\ idx' = [idx EXCEPT ![p] = 1]
              /\ pc' = [pc EXCEPT ![p] = "callTool"]
              /\ UNCHANGED <<result, err>>
    /\ UNCHANGED <<agentVars, actions, turns, envVars>>
    /\ UNCHANGED notCore

\* messages.create resolved with r
DecisionResp(p, r) ==
    /\ pc[p] = "awaitDecision"
    /\ (r \notin {RespTool1} /\ ~IsTerminal(r)) => RichCount(p) < MaxRich
    /\ cur' = [cur EXCEPT ![p] = r]
    /\ IF IsTerminal(r)
         THEN /\ result' = [result EXCEPT ![p] =
                     [response |-> Trim(Join(TextBlocks(r.content))),
                      actions |-> actions[p]]]
              /\ pc' = [pc EXCEPT ![p] = "returned"]
              /\ UNCHANGED <<messages, idx, toolResults>>
         ELSE /\ messages' = [messages EXCEPT ![p] =
                     Append(messages[p], [role |-> "assistant", content |-> r.content])]
              /\ toolResults' = [toolResults EXCEPT ![p] = <<>>]
              /\ idx' = [idx EXCEPT ![p] = 1]
              /\ pc' = [pc EXCEPT ![p] = "callTool"]
              /\ UNCHANGED result
    /\ UNCHANGED <<agentVars, actions, turns, err, envVars>>
    /\ UNCHANGED notCore

\* messages.create rejected with e
DecisionFail(p, e) ==
    /\ pc[p] = "awaitDecision"
    /\ err' = [err EXCEPT ![p] = e]
    /\ extErr' = [extErr EXCEPT ![p] = e]
    /\ pc' = [pc EXCEPT ![p] = "failed"]
    /\ UNCHANGED <<agentVars, messages, actions, turns, cur, idx, toolResults, result,
                   apiLog, bridgeCalls, peerCalls, peerResults>>
    /\ UNCHANGED notCore

\* variant: the invocations of a round are issued together, as
\* Promise.all(toolUseBlocks.map(...)) would, before any result is awaited
CallTool_Parallel(p) ==
    /\ pc[p] = "callTool"
    /\ LET blocks == ToolUseBlocks(cur[p].content)
           rest == SubSeq(blocks, idx[p], Len(blocks))
           issued == [i \in DOMAIN rest |-> [name |-> rest[i].name, arguments |-> rest[i].input]]
       IN /\ bridgeCalls' = [bridgeCalls EXCEPT ![p] = bridgeCalls[p] \o issued]
          /\ IF NotConnected(mcpClient)
               THEN /\ err' = [err EXCEPT ![p] = NotConnectedError]
                    /\ pc' = [pc EXCEPT ![p] = "failed"]
                    /\ UNCHANGED peerCalls
               ELSE /\ peerCalls' = [peerCalls EXCEPT ![p] = peerCalls[p] \o issued]
                    /\ pc' = [pc EXCEPT ![p] = "awaitTool"]
                    /\ UNCHANGED err
    /\ UNCHANGED <<agentVars, messages, actions, turns, cur, idx, toolResults, result,
                   apiLog, peerResults, extErr>>
    /\ UNCHANGED notCore

\* this._callTool(toolUse.name, toolUse.input), up to its await
CallTool(p) ==
    /\ pc[p] = "callTool"
    /\ LET toolUse == ToolUseBlocks(cur[p].content)[idx[p]]
           call == [name |-> toolUse.name, arguments |-> toolUse.input]
       IN /\ bridgeCalls' = [bridgeCalls EXCEPT ![p] = Append(bridgeCalls[p], call)]
          /\ IF NotConnected(mcpClient)
               THEN /\ err' = [err EXCEPT ![p] = NotConnectedError]
                    /\ pc' = [pc EXCEPT ![p] = "failed"]
                    /\ UNCHANGED peerCalls
               ELSE /\ peerCalls' = [peerCalls EXCEPT ![p] = Append(peerCalls[p], call)]
                    /\ pc' = [pc EXCEPT ![p] = "awaitTool"]
                    /\ UNCHANGED err
    /\ UNCHANGED <<agentVars, messages, actions, turns, cur, idx, toolResults, result,
                   apiLog, peerResults, extErr>>
    /\ UNCHANGED notCore

\* variant: every tool result is pushed to the session as a user entry of its
\* own, inside the for loop
ToolResp_PushEach(p, res) ==
    /\ pc[p] = "awaitTool"
    /\ res # "r1" => RichCount(p) < MaxRich
    /\ LET blocks == ToolUseBlocks(cur[p].content)
           toolUse == blocks[idx[p]]
           newResult == [type |-> "tool_result",
                         tool_use_id |-> toolUse.id,
                         content |-> Stringify(res)]
       IN /\ peerResults' = [peerResults EXCEPT ![p] = Append(peerResults[p], res)]
          /\ actions' = [actions EXCEPT ![p] =
                 PushAction(actions[p],
                            [tool |-> toolUse.name, input |-> toolUse.input, result |-> res])]
          /\ toolResults' = [toolResults EXCEPT ![p] = Append(toolResults[p], newResult)]
          /\ messages' = [messages EXCEPT ![p] =
                 Append(messages[p], [role |-> "user", content |-> <<newResult>>])]
          /\ IF MoreToolUses(idx[p], blocks)
               THEN /\ idx' = [idx EXCEPT ![p] = idx[p] + 1]
                    /\ pc' = [pc EXCEPT ![p] = "callTool"]
               ELSE /\ pc' = [pc EXCEPT ![p] = "loop"]
                    /\ UNCHANGED idx
    /\ UNCHANGED <<agentVars, turns, cur, result, err, apiLog, bridgeCalls, peerCalls, extErr>>
    /\ UNCHANGED notCore

\* mcpClient.callTool resolved with res: the rest of the loop body, and
\* messages.push({role: 'user', content: toolResults}) after the last toolUse
ToolResp(p, res) ==
    /\ pc[p] = "awaitTool"
    /\ res # "r1" => RichCount(p) < MaxRich
    /\ LET blocks == ToolUseBlocks(cur[p].content)
           toolUse == blocks[idx[p]]
           newResults == Append(toolResults[p],
                                [type |-> "tool_result",
                                 tool_use_id |-> toolUse.id,
                                 content |-> Stringify(res)])
       IN /\ peerResults' = [peerResults EXCEPT ![p] = Append(peerResults[p], res)]
          /\ actions' = [actions EXCEPT ![p] =
                 PushAction(actions[p],
                            [tool |-> toolUse.name, input |-> toolUse.input, result |-> res])]
          /\ toolResults' = [toolResults EXCEPT ![p] = newResults]
          /\ IF MoreToolUses(idx[p], blocks)
               THEN /\ idx' = [idx EXCEPT ![p] = idx[p] + 1]
                    /\ pc' = [pc EXCEPT ![p] = "callTool"]
                    /\ UNCHANGED messages
               ELSE /\ messages' = [messages EXCEPT ![p] =
                           Append(messages[p], [role |-> "user", content |-> newResults])]
                    /\ pc' = [pc EXCEPT ![p] = "loop"]
                    /\ UNCHANGED idx
    /\ UNCHANGED <<agentVars, turns, cur, result, err, apiLog, bridgeCalls, peerCalls, extErr>>
    /\ UNCHANGED notCore

\* variant: the rejection is caught inside the loop, which goes on with the
\* next round
ToolFail_Swallow(p, e) ==
    /\ pc[p] = "awaitTool"
    /\ extErr' = [extErr EXCEPT ![p] = e]
    /\ messages' = [messages EXCEPT ![p] =
           Append(messages[p], [role |-> "user", content |-> toolResults[p]])]
    /\ pc' = [pc EXCEPT ![p] = "loop"]
    /\ UNCHANGED <<agentVars, actions, turns, cur, idx, toolResults, result, err,
                   apiLog, bridgeCalls, peerCalls, peerResults>>
    /\ UNCHANGED notCore

\* variant: _callTool sends the request again when the peer rejects it
ToolFail_Retry(p, e) ==
    /\ pc[p] = "awaitTool"
    /\ Len(peerCalls[p]) <= Len(bridgeCalls[p])
    /\ peerCalls' = [peerCalls EXCEPT ![p] =
           Append(peerCalls[p], peerCalls[p][Len(peerCalls[p])])]
    /\ UNCHANGED <<agentVars, procVars, apiLog, bridgeCalls, peerResults, extErr>>
    /\ UNCHANGED notCore

\* mcpClient.callTool rejected with e
ToolFail(p, e) ==
    /\ pc[p] = "awaitTool"
    /\ err' = [err EXCEPT ![p] = e]
    /\ extErr' = [extErr EXCEPT ![p] = e]
    /\ pc' = [pc EXCEPT ![p] = "failed"]
    /\ UNCHANGED <<agentVars, messages, actions, turns, cur, idx, toolResults, result,
                   apiLog, bridgeCalls, peerCalls, peerResults>>
    /\ UNCHANGED notCore

\* the caller's `await agent.process(input)` has the outcome; the session is
\* discarded
Consume(p) ==
    /\ pc[p] \in {"returned", "failed"}
    /\ pc' = [pc EXCEPT ![p] = "idle"]
    /\ messages' = [messages EXCEPT ![p] = <<>>]
    /\ actions' = [actions EXCEPT ![p] = <<>>]
    /\ turns' = [turns EXCEPT ![p] = 0]
    /\ cur' = [cur EXCEPT ![p] = NoResponse]
    /\ idx' = [idx EXCEPT ![p] = 0]
    /\ toolResults' = [toolResults EXCEPT ![p] = <<>>]
    /\ result' = [result EXCEPT ![p] = [response |-> <<>>, actions |-> <<>>]]
    /\ err' = [err EXCEPT ![p] = NoErr]
    /\ apiLog' = [apiLog EXCEPT ![p] = <<>>]
    /\ bridgeCalls' = [bridgeCalls EXCEPT ![p] = <<>>]
    /\ peerCalls' = [peerCalls EXCEPT ![p] = <<>>]
    /\ peerResults' = [peerResults EXCEPT ![p] = <<>>]
    /\ extErr' = [extErr EXCEPT ![p] = NoErr]
    /\ UNCHANGED agentVars
    /\ UNCHANGED notCore

Next ==
    \/ ConnectStart
    \/ ConnectOk
    \/ ConnectFail
    \/ ListToolsOk
    \/ ListToolsFail
    \/ DisconnectStart
    \/ CloseOk
    \/ CloseFail
    \/ \E p \in DOMAIN pc, input \in Utterances : Start(p, input)
    \/ \E p \in DOMAIN pc : LoopTop(p)
    \/ \E p \in DOMAIN pc, r \in Responses : DecisionResp(p, r)
    \/ \E p \in DOMAIN pc, e \in ApiErrors : DecisionFail(p, e)
    \/ \E p \in DOMAIN pc : CallTool(p)
    \/ \E p \in DOMAIN pc, res \in ResultVals : ToolResp(p, res)
    \/ \E p \in DOMAIN pc, e \in PeerErrors : ToolFail(p, e)
    \/ \E p \in DOMAIN pc : Consume(p)

Spec == Init /\ [][Next]_vars

\* the steps of call p that the running code takes by itself, and the
\* completions of the operations it awaits
CodeRuns(p) == LoopTop(p) \/ CallTool(p)
DecisionCompletes(p) ==
    \/ \E r \in Responses : DecisionResp(p, r)
    \/ \E e \in ApiErrors : DecisionFail(p, e)
ToolCompletes(p) ==
    \/ \E res \in ResultVals : ToolResp(p, res)
    \/ \E e \in PeerErrors : ToolFail(p, e)

\* every awaited decision request and tool invocation completes, and the code
\* between two awaits runs
Fairness ==
    \A p \in Procs :
        /\ WF_vars(CodeRuns(p))
        /\ WF_vars(DecisionCompletes(p))
        /\ WF_vars(ToolCompletes(p))

SpecLive == Init /\ [][Next]_vars /\ Fairness

\* ------------------------------------------------------------------------
\* Two process() calls under way on one connected agent
\* ------------------------------------------------------------------------
\* rounds a call makes at most while it overlaps with another one: the decision
\* service answers with a terminal response from this round on
MaxOverlapTurns == 2
Overlapping == {1, 2}

\* a connected agent (connect() has resolved on Client 1); no call made yet
InitOverlap ==
    /\ mcpClient = 1
    /\ tools = MapTools(PeerTools(1))
    /\ cstate = [c \in 1..MaxClients |-> IF c = 1 THEN "open" ELSE "unused"]
    /\ nextClient = 2
    /\ lc = "idle"
    /\ connectedOk = TRUE
    /\ dres = "none"
    /\ pc = [p \in Overlapping |-> "idle"]
    /\ messages = [p \in Overlapping |-> <<>>]
    /\ actions = [p \in Overlapping |-> <<>>]
    /\ turns = [p \in Overlapping |-> 0]
    /\ cur = [p \in Overlapping |-> NoResponse]
    /\ idx = [p \in Overlapping |-> 0]
    /\ toolResults = [p \in Overlapping |-> <<>>]
    /\ result = [p \in Overlapping |-> [response |-> <<>>, actions |-> <<>>]]
    /\ err = [p \in Overlapping |-> NoErr]
    /\ apiLog = [p \in Overlapping |-> <<>>]
    /\ bridgeCalls = [p \in Overlapping |-> <<>>]
    /\ peerCalls = [p \in Overlapping |-> <<>>]
    /\ peerResults = [p \in Overlapping |-> <<>>]
    /\ extErr = [p \in Overlapping |-> NoErr]
    /\ ChildOff /\ DateOff /\ CliOff /\ WidgetOff

\* variant: the session is kept in fields of the agent (this.messages,
\* this.actions, this.turns), which every call resets on entry
StartOverlapping_SharedSession(p, input) ==
    /\ pc[p] = "idle"
    /\ lc = "idle"
    /\ messages' = [q \in DOMAIN messages |->
           <<[role |-> "user", content |-> <<"DATE CONTEXT", input>>]>>]
    /\ actions' = [q \in DOMAIN actions |-> <<>>]
    /\ turns' = [q \in DOMAIN turns |-> 0]
    /\ pc' = [pc EXCEPT ![p] = "loop"]
    /\ UNCHANGED <<agentVars, cur, idx, toolResults, result, err, envVars>>
    /\ UNCHANGED notCore

\* process(input) is entered while other calls may be under way: the
\* synchronous part up to the loop; messages, actions and turns are locals
StartOverlapping(p, input) ==
    /\ pc[p] = "idle"
    /\ lc = "idle"
    /\ messages' = [messages EXCEPT ![p] =
           <<[role |-> "user", content |-> <<"DATE CONTEXT", input>>]>>]
    /\ actions' = [actions EXCEPT ![p] = <<>>]
    /\ turns' = [turns EXCEPT ![p] = 0]
    /\ pc' = [pc EXCEPT ![p] = "loop"]
    /\ UNCHANGED <<agentVars, cur, idx, toolResults, result, err, envVars>>
    /\ UNCHANGED notCore

\* messages.create resolved with r, for a decision service that ends a call
\* within MaxOverlapTurns rounds
DecisionRespBounded(p, r) ==
    /\ turns[p] >= MaxOverlapTurns => IsTerminal(r)
    /\ DecisionResp(p, r)

NextOverlap ==
    \/ \E p \in DOMAIN pc, input \in Utterances : StartOverlapping(p, input)
    \/ \E p \in DOMAIN pc : LoopTop(p)
    \/ \E p \in DOMAIN pc, r \in Responses : DecisionRespBounded(p, r)
    \/ \E p \in DOMAIN pc, e \in ApiErrors : DecisionFail(p, e)
    \/ \E p \in DOMAIN pc : CallTool(p)
    \/ \E p \in DOMAIN pc, res \in ResultVals : ToolResp(p, res)
    \/ \E p \in DOMAIN pc, e \in PeerErrors : ToolFail(p, e)
    \/ \E p \in DOMAIN pc : Consume(p)

SpecOverlap == InitOverlap /\ [][NextOverlap]_vars

\* ------------------------------------------------------------------------
\* The environment of the MCP subprocess (constructor and connect())
\* ------------------------------------------------------------------------
\* a key of process.env that is not set, a property that is undefined
Undefined == "undefined"
\* the keys of mcpEnv
AllowList == {"PATH", "HOME", "NODE_ENV", "LIFERHYTHM_SHEET_ID",
              "GOOGLE_APPLICATION_CREDENTIALS", "GOOGLE_SERVICE_ACCOUNT_EMAIL",
              "GOOGLE_PRIVATE_KEY"}
\* other keys of process.env
OtherKeys == {"ANTHROPIC_API_KEY", "SHEET_ID"}
EnvKeys == AllowList \cup OtherKeys
\* the fallback of SHEET_ID in agent.js
HardcodedSheetId == "1XJ5oA-FjBx7P_bn-gM2qL_Y5rXYFbFhSsw74ejyph-E"

\* what process.env may hold under each key
EnvValues(k) ==
    CASE k = "PATH" -> {Undefined, "/bin"}
      [] k = "HOME" -> {Undefined, "/home/u"}
      [] k = "NODE_ENV" -> {Undefined, "", "test"}
      [] k = "LIFERHYTHM_SHEET_ID" -> {Undefined, "", "sheetE"}
      [] k = "GOOGLE_APPLICATION_CREDENTIALS" -> {Undefined, "cred.json"}
      [] k = "GOOGLE_SERVICE_ACCOUNT_EMAIL" -> {Undefined, "sa@example"}
      [] k = "GOOGLE_PRIVATE_KEY" -> {Undefined, "pk"}
      [] k = "ANTHROPIC_API_KEY" -> {Undefined, "sk-1", "sk-2"}
      [] k = "SHEET_ID" -> {Undefined, "sheetS"}

\* process.env of the first run
FirstEnvs ==
    {[k \in EnvKeys |->
         CASE k = "PATH" -> "/bin"
           [] k = "HOME" -> h
           [] k = "NODE_ENV" -> n
           [] k = "LIFERHYTHM_SHEET_ID" -> l
           [] k = "GOOGLE_APPLICATION_CREDENTIALS" -> g[1]
           [] k = "GOOGLE_SERVICE_ACCOUNT_EMAIL" -> g[2]
           [] k = "GOOGLE_PRIVATE_KEY" -> g[3]
           [] k = "ANTHROPIC_API_KEY" -> "sk-1"
           [] k = "SHEET_ID" -> Undefined] :
       h \in EnvValues("HOME"),
       n \in EnvValues("NODE_ENV"),
       l \in EnvValues("LIFERHYTHM_SHEET_ID"),
       g \in EnvValues("GOOGLE_APPLICATION_CREDENTIALS")
                \X EnvValues("GOOGLE_SERVICE_ACCOUNT_EMAIL")
                \X EnvValues("GOOGLE_PRIVATE_KEY")}

\* process.env of the second run: that of the first with the other keys set
\* anew and at most one key of the allow-list set anew
SecondEnvs(e) ==
    {[k \in EnvKeys |->
         IF k = "ANTHROPIC_API_KEY" THEN a
         ELSE IF k = "SHEET_ID" THEN s
         ELSE IF k = kv[1] THEN kv[2] ELSE e[k]] :
       a \in EnvValues("ANTHROPIC_API_KEY"),
       s \in EnvValues("SHEET_ID"),
       kv \in UNION {{<<k, v>> : v \in EnvValues(k)} : k \in AllowList}}

\* the sheetId option of `new LifeRhythmAgent({ sheetId })`
SheetIdArgs == {Undefined, "", "sheetX"}
Runs == {1, 2}

\* JavaScript truthiness of a string or undefined
Truthy(v) == v # Undefined /\ v # ""

\* const SHEET_ID = process.env.LIFERHYTHM_SHEET_ID || '1XJ5o...'
ModuleSheetId(env) ==
    IF Truthy(env["LIFERHYTHM_SHEET_ID"]) THEN env["LIFERHYTHM_SHEET_ID"]
    ELSE HardcodedSheetId

\* variant: mcpEnv = { ...process.env, LIFERHYTHM_SHEET_ID: this.sheetId }
McpEnvLiteral_Spread(env, sheetId) ==
    [k \in EnvKeys |-> IF k = "LIFERHYTHM_SHEET_ID" THEN sheetId ELSE env[k]]

\* the object literal `const mcpEnv = { PATH: ..., ... }`
McpEnvLiteral(env, sheetId) ==
    [k \in AllowList |->
        CASE k = "NODE_ENV" ->
               IF Truthy(env["NODE_ENV"]) THEN env["NODE_ENV"] ELSE "production"
          [] k = "LIFERHYTHM_SHEET_ID" -> sheetId
          [] OTHER -> env[k]]

\* Object.keys(mcpEnv).forEach(k => mcpEnv[k] === undefined && delete mcpEnv[k])
StripUndefined(obj) ==
    [k \in {j \in DOMAIN obj : obj[j] # Undefined} |-> obj[k]]

\* two runs of the program, each with its process.env, no agent made yet
InitEnv ==
    /\ \E e \in FirstEnvs : \E f \in SecondEnvs(e) : ambient = <<e, f>>
    /\ sheetIdArg \in SheetIdArgs
    /\ estage = [r \in Runs |-> "start"]
    /\ agentSheetId = [r \in Runs |-> Undefined]
    /\ mcpEnv = [r \in Runs |-> <<>>]
    /\ CoreInit /\ DateOff /\ CliOff /\ WidgetOff

\* constructor({ sheetId = SHEET_ID } = {})
NewAgent(r) ==
    /\ estage[r] = "start"
    /\ agentSheetId' = [agentSheetId EXCEPT ![r] =
           IF sheetIdArg = Undefined THEN ModuleSheetId(ambient[r])
           ELSE sheetIdArg]
    /\ estage' = [estage EXCEPT ![r] = "constructed"]
    /\ UNCHANGED <<ambient, sheetIdArg, mcpEnv>>
    /\ UNCHANGED notChild

\* connect(), the env it gives to `new StdioClientTransport`
ConnectEnv(r) ==
    /\ estage[r] = "constructed"
    /\ mcpEnv' = [mcpEnv EXCEPT ![r] =
           StripUndefined(McpEnvLiteral(ambient[r], agentSheetId[r]))]
    /\ estage' = [estage EXCEPT ![r] = "connected"]
    /\ UNCHANGED <<ambient, sheetIdArg, agentSheetId>>
    /\ UNCHANGED notChild

NextEnv ==
    \/ \E r \in Runs : NewAgent(r)
    \/ \E r \in Runs : ConnectEnv(r)

SpecEnv == InitEnv /\ [][NextEnv]_vars

\* ------------------------------------------------------------------------
\* formatDateContext(date)
\* ------------------------------------------------------------------------
\* Time is counted in hours from 2026-10-01T00:00Z, a Thursday; a day is
\* counted in days from 2026-10-01.
\* first and last day (UTC) the reference instant is taken from
FirstDay == 23
LastDay == 40

Weekdays == <<"Sunday", "Monday", "Tuesday", "Wednesday", "Thursday",
              "Friday", "Saturday">>
\* time zones of the host: TZ=UTC, a zone 5 h west without daylight saving,
\* one 9 h east, and one that falls back from UTC-4 to UTC-5 on 2026-11-01
Zones == {"UTC", "Etc/GMT+5", "Asia/Tokyo", "America/Toronto"}
\* 2026-11-01T06:00Z, and the wall clock 2026-11-01 02:00 at which it is reached
FallBackUtc == 31 * 24 + 6
FallBackLocal == 31 * 24 + 2

\* offset of local time from UTC at the instant t
OffsetAtUtc(z, t) ==
    CASE z = "UTC" -> 0
      [] z = "Etc/GMT+5" -> 0 - 5
      [] z = "Asia/Tokyo" -> 9
      [] z = "America/Toronto" -> IF t < FallBackUtc THEN 0 - 4 ELSE 0 - 5
\* offset of local time from UTC at the wall-clock time tl; a wall-clock time
\* that occurs twice is taken as its first occurrence
OffsetAtLocal(z, tl) ==
    CASE z = "UTC" -> 0
      [] z = "Etc/GMT+5" -> 0 - 5
      [] z = "Asia/Tokyo" -> 9
      [] z = "America/Toronto" -> IF tl < FallBackLocal THEN 0 - 4 ELSE 0 - 5
\* wall-clock time of the instant t, and the instant of a wall-clock time
LocalTime(z, t) == t + OffsetAtUtc(z, t)
UtcTime(z, tl) == tl - OffsetAtLocal(z, tl)

\* calendar of October to December 2026
MonthOf(day) == IF day < 31 THEN 10 ELSE IF day < 61 THEN 11 ELSE 12
MonthStart(m) == IF m = 10 THEN 0 ELSE IF m = 11 THEN 31 ELSE 61
MonthName(m) == IF m = 10 THEN "October" ELSE IF m = 11 THEN "November" ELSE "December"
DateOfMonth(day) == day - MonthStart(MonthOf(day)) + 1
WeekdayIndex(day) == (day + 4) % 7

\* date.toISOString().split('T')[0]
IsoDate(t) ==
    LET day == t \div 24
    IN [year |-> 2026, month |-> MonthOf(day), date |-> DateOfMonth(day)]
\* date.getDay() and date.getDate()
GetDay(z, t) == WeekdayIndex(LocalTime(z, t) \div 24)
GetDate(z, t) == DateOfMonth(LocalTime(z, t) \div 24)
\* date.setDate(n): day n of the month of the wall-clock date, n may be below
\* 1; the time within the day is kept
SetDate(z, t, n) ==
    LET tl == LocalTime(z, t)
        day == MonthStart(MonthOf(tl \div 24)) + n - 1
    IN UtcTime(z, (day * 24) + (tl % 24))
\* date.toLocaleDateString('en-CA', { weekday: 'long' })
LocaleWeekday(z, t) == Weekdays[GetDay(z, t) + 1]
\* date.toLocaleDateString('en-CA', { weekday, year, month, day })
LocaleReadable(z, t) ==
    LET day == LocalTime(z, t) \div 24
    IN <<Weekdays[WeekdayIndex(day) + 1], MonthName(MonthOf(day)),
         DateOfMonth(day), 2026>>

\* weekdays.map((name, idx) => ...)
RecentWeekdays(z, t) ==
    LET todayIdx == GetDay(z, t)
    IN [i \in 1..Len(Weekdays) |->
          LET diff == (todayIdx - (i - 1) + 7) % 7
              d == SetDate(z, t, GetDate(z, t) - diff)
          IN [kind |-> "weekday", name |-> Weekdays[i], date |-> IsoDate(d)]]

\* the lines formatDateContext joins
FormatDateContext(z, t) ==
    <<[kind |-> "open"],
      [kind |-> "today", readable |-> LocaleReadable(z, t), date |-> IsoDate(t)],
      [kind |-> "heading"]>>
    \o RecentWeekdays(z, t)
    \o <<[kind |-> "close"]>>

\* a host in some time zone, a reference instant, nothing formatted yet
InitDate ==
    /\ tz \in Zones
    /\ now \in (FirstDay * 24)..(LastDay * 24 + 23)
    /\ dateContext = <<>>
    /\ CoreInit /\ ChildOff /\ CliOff /\ WidgetOff

\* formatDateContext(date) is called
FormatDate ==
    /\ dateContext = <<>>
    /\ dateContext' = FormatDateContext(tz, now)
    /\ UNCHANGED <<tz, now>>
    /\ UNCHANGED notDate

NextDate == FormatDate

SpecDate == InitDate /\ [][NextDate]_vars

\* ------------------------------------------------------------------------
\* The command line (index.js)
\* ------------------------------------------------------------------------
\* lines stdin delivers in interactive mode
MaxLines == 3

\* exitCode while the process runs
NotExited == 0 - 1
\* process.argv: --interactive, an utterance, or neither
Argvs == {"interactive", "single", "none"}
\* lines typed, as sequences of pieces
Lines == {<<>>, <<" ">>, <<" ", "QUIT">>, <<"exit", " ">>, <<"u1">>}

\* input.toLowerCase()
ToLowerCase(s) == [i \in DOMAIN s |-> IF s[i] = "QUIT" THEN "quit" ELSE s[i]]

\* main() has not run yet
InitCli ==
    /\ argv \in Argvs
    /\ cpc = "start"
    /\ rl = "none"
    /\ exitCode = NotExited
    /\ stdinLeft = MaxLines
    /\ calls = 0
    /\ inflight = 0
    /\ outcomes = <<>>
    /\ out = <<>>
    /\ connRes = "pending"
    /\ disconnects = 0
    /\ CoreInit /\ ChildOff /\ DateOff /\ WidgetOff

\* main(), up to `await agent.connect()`
MainStart ==
    /\ cpc = "start"
    /\ cpc' = "connecting"
    /\ out' = Append(out, "connecting")
    /\ UNCHANGED <<argv, rl, exitCode, stdinLeft, calls, inflight, outcomes,
                   connRes, disconnects>>
    /\ UNCHANGED notCli

\* agent.connect() resolved: main() goes on to runInteractive (up to its
\* await), to runSingle (up to `await agent.process(input)`), or prints the
\* usage and calls agent.disconnect()
ConnectResolved ==
    /\ cpc = "connecting"
    /\ connRes' = "ok"
    /\ CASE argv = "interactive" ->
              /\ rl' = "open"
              /\ out' = out \o <<"connected", "ready", "prompt">>
              /\ cpc' = "interactive"
              /\ UNCHANGED <<calls, disconnects>>
         [] argv = "single" ->
              /\ out' = out \o <<"connected", "echo">>
              /\ calls' = calls + 1
              /\ cpc' = "single"
              /\ UNCHANGED <<rl, disconnects>>
         [] argv = "none" ->
              /\ out' = out \o <<"connected", "usage">>
              /\ disconnects' = disconnects + 1
              /\ cpc' = "usage"
              /\ UNCHANGED <<rl, calls>>
    /\ UNCHANGED <<argv, exitCode, stdinLeft, inflight, outcomes>>
    /\ UNCHANGED notCli

\* agent.connect() rejected: two console.error, process.exit(1)
ConnectRejected ==
    /\ cpc = "connecting"
    /\ connRes' = "failed"
    /\ out' = out \o <<"error: failed to connect", "error: hint">>
    /\ exitCode' = 1
    /\ cpc' = "exited"
    /\ UNCHANGED <<argv, rl, stdinLeft, calls, inflight, outcomes, disconnects>>
    /\ UNCHANGED notCli

\* runSingle: agent.process(input) resolved; main() calls agent.disconnect()
SingleResolved(hasActions) ==
    /\ cpc = "single"
    /\ outcomes' = Append(outcomes, "ok")
    /\ out' = out \o (IF hasActions THEN <<"actions">> ELSE <<>>) \o <<"response">>
    /\ disconnects' = disconnects + 1
    /\ cpc' = "disconnecting"
    /\ UNCHANGED <<argv, rl, exitCode, stdinLeft, calls, inflight, connRes>>
    /\ UNCHANGED notCli

\* variant: the catch of runSingle reports the error and returns
SingleRejected_NoExit ==
    /\ cpc = "single"
    /\ outcomes' = Append(outcomes, "failed")
    /\ out' = Append(out, "error")
    /\ disconnects' = disconnects + 1
    /\ cpc' = "disconnecting"
    /\ UNCHANGED <<argv, rl, exitCode, stdinLeft, calls, inflight, connRes>>
    /\ UNCHANGED notCli

\* runSingle: agent.process(input) rejected: console.error, process.exit(1)
SingleRejected ==
    /\ cpc = "single"
    /\ outcomes' = Append(outcomes, "failed")
    /\ out' = Append(out, "error")
    /\ exitCode' = 1
    /\ cpc' = "exited"
    /\ UNCHANGED <<argv, rl, stdinLeft, calls, inflight, connRes, disconnects>>
    /\ UNCHANGED notCli

\* agent.disconnect() resolved: process.exit(1) after the usage, else main()
\* returns and the process ends
DisconnectResolved ==
    /\ cpc \in {"usage", "disconnecting"}
    /\ exitCode' = IF cpc = "usage" THEN 1 ELSE 0
    /\ cpc' = "exited"
    /\ UNCHANGED <<argv, rl, stdinLeft, calls, inflight, outcomes, out, connRes,
                   disconnects>>
    /\ UNCHANGED notCli

\* agent.disconnect() rejected: main().catch
DisconnectRejected ==
    /\ cpc \in {"usage", "disconnecting"}
    /\ out' = Append(out, "error: uncaught")
    /\ exitCode' = 1
    /\ cpc' = "exited"
    /\ UNCHANGED <<argv, rl, stdinLeft, calls, inflight, outcomes, connRes,
                   disconnects>>
    /\ UNCHANGED notCli

\* rl.on('line', ...), up to its return or to `await agent.process(input)`;
\* rl.pause() does not keep 'line' events from being emitted
Line(line) ==
    /\ cpc = "interactive"
    /\ rl \in {"open", "paused"}
    /\ stdinLeft > 0
    /\ stdinLeft' = stdinLeft - 1
    /\ LET input == Trim(line)
       IN IF input = <<>>
            THEN /\ out' = Append(out, "prompt")
                 /\ UNCHANGED <<cpc, rl, exitCode, calls, inflight>>
          ELSE IF ToLowerCase(input) = <<"quit">> \/ ToLowerCase(input) = <<"exit">>
            THEN /\ out' = Append(out, "goodbye")
                 /\ rl' = "closed"
                 /\ exitCode' = 0
                 /\ cpc' = "exited"
                 /\ UNCHANGED <<calls, inflight>>
          ELSE /\ rl' = "paused"
               /\ calls' = calls + 1
               /\ inflight' = inflight + 1
               /\ UNCHANGED <<cpc, exitCode, out>>
    /\ UNCHANGED <<argv, outcomes, connRes, disconnects>>
    /\ UNCHANGED notCli

\* line handler: agent.process(input) resolved
HandlerResolved(hasActions) ==
    /\ cpc = "interactive"
    /\ inflight > 0
    /\ inflight' = inflight - 1
    /\ outcomes' = Append(outcomes, "ok")
    /\ out' = out \o (IF hasActions THEN <<"actions">> ELSE <<>>)
                  \o <<"assistant", "prompt">>
    /\ rl' = "open"
    /\ UNCHANGED <<argv, cpc, exitCode, stdinLeft, calls, connRes, disconnects>>
    /\ UNCHANGED notCli

\* line handler: agent.process(input) rejected
HandlerRejected ==
    /\ cpc = "interactive"
    /\ inflight > 0
    /\ inflight' = inflight - 1
    /\ outcomes' = Append(outcomes, "failed")
    /\ out' = out \o <<"error", "prompt">>
    /\ rl' = "open"
    /\ UNCHANGED <<argv, cpc, exitCode, stdinLeft, calls, connRes, disconnects>>
    /\ UNCHANGED notCli

\* stdin ends: rl.on('close', () => process.exit(0))
StdinEnd ==
    /\ cpc = "interactive"
    /\ rl \in {"open", "paused"}
    /\ rl' = "closed"
    /\ exitCode' = 0
    /\ cpc' = "exited"
    /\ UNCHANGED <<argv, stdinLeft, calls, inflight, outcomes, out, connRes,
                   disconnects>>
    /\ UNCHANGED notCli

NextCli ==
    \/ MainStart
    \/ ConnectResolved
    \/ ConnectRejected
    \/ \E hasActions \in BOOLEAN : SingleResolved(hasActions)
    \/ SingleRejected
    \/ DisconnectResolved
    \/ DisconnectRejected
    \/ \E line \in Lines : Line(line)
    \/ \E hasActions \in BOOLEAN : HandlerResolved(hasActions)
    \/ HandlerRejected
    \/ StdinEnd

SpecCli == InitCli /\ [][NextCli]_vars

\* ------------------------------------------------------------------------
\* The exchange-rate widget (app.js)
\* ------------------------------------------------------------------------
\* `if (historicalData.length > 20)`
HistoryCap == 20
\* fetchRate() calls made in all
MaxFetches == 22
\* inputs that are not the plain ones (another rate, typing into #usdInput)
MaxVaried == 1
\* fetchRate() calls that end in the catch block
MaxFails == 1

\* fetchRate() calls that may be in flight together
Calls == {1, 2}
\* A rate is counted in 1/10000; currentRate holding undefined is UndefinedRate.
PlainRate == 13500
Rates == {PlainRate, 13600}
UndefinedRate == 0 - 1
\* what response.json() may resolve with: { rates: { CAD } }, an object
\* without rates, and rates without CAD
RateData(r) == [hasRates |-> TRUE, hasCad |-> TRUE, cad |-> r]
NoRatesData == [hasRates |-> FALSE, hasCad |-> FALSE, cad |-> 0]
NoCadData == [hasRates |-> TRUE, hasCad |-> FALSE, cad |-> 0]
NoData == [hasRates |-> FALSE, hasCad |-> FALSE, cad |-> UndefinedRate]
JsonData == {RateData(r) : r \in Rates} \cup {NoRatesData, NoCadData}
\* what the user may type into #usdInput
UsdInputs == {"", "200"}

Abs(x) == IF x < 0 THEN 0 - x ELSE x
\* a / b rounded to the nearest integer, for b > 0
RoundDiv(a, b) ==
    LET q == ((2 * Abs(a)) + b) \div (2 * b)
    IN IF a < 0 THEN 0 - q ELSE q
\* x.toFixed(4) of a number counted in 1/10000
ToFixed4(x) == [neg |-> x < 0, int |-> Abs(x) \div 10000, frac |-> Abs(x) % 10000]
\* x.toFixed(2) of a number counted in 1/100
ToFixed2(x) == [neg |-> x < 0, int |-> Abs(x) \div 100, frac |-> Abs(x) % 100]
\* new Date(): time is counted in seconds, and a second passes between one
\* update of the chart and the next
ClockNow == Len(pushed)
\* now.toLocaleTimeString()
ToLocaleTimeString(t) == <<9 + (t \div 3600), ":", (t \div 60) % 60, ":", t % 60, " a.m.">>
\* parseFloat(usdInput.value)
ParseFloat(s) ==
    CASE s = "100" -> [nan |-> FALSE, val |-> 100]
      [] s = "200" -> [nan |-> FALSE, val |-> 200]
      [] OTHER -> [nan |-> TRUE, val |-> 0]
\* (usd * currentRate).toFixed(2)
CadText(usd, rate) ==
    IF usd.nan THEN <<"NaN">> ELSE <<ToFixed2(RoundDiv(usd.val * rate, 100))>>

\* variant: previousRate is assigned after currentRate
PreviousAfterFetch_Late(before, fetched) == fetched

\* previousRate = currentRate, ahead of currentRate = data.rates.CAD
PreviousAfterFetch(before, fetched) == before

\* variant: historicalData.pop() when over the cap
KeepLast_Pop(h) == IF Len(h) > HistoryCap THEN SubSeq(h, 1, Len(h) - 1) ELSE h

\* if (historicalData.length > 20) historicalData.shift()
KeepLast(h) == IF Len(h) > HistoryCap THEN Tail(h) ELSE h

\* variant: `if (change >= 0)` in place of `if (change > 0)`
UpdateDisplay_NoEqual(d, rate, prev) ==
    LET change == rate - prev
        changePercent == ToFixed2(RoundDiv(change * 10000, prev))
        withRate == [d EXCEPT !.rate = <<ToFixed4(rate)>>]
        withChange ==
            IF prev > 0
              THEN IF change >= 0
                     THEN [withRate EXCEPT
                             !.changeClass = "change positive",
                             !.changeText = <<"up +", ToFixed4(change), " (+", changePercent, "%)">>]
                     ELSE [withRate EXCEPT
                             !.changeClass = "change negative",
                             !.changeText = <<"down ", ToFixed4(change), " (", changePercent, "%)">>]
              ELSE withRate
    IN [withChange EXCEPT
          !.high = <<ToFixed4(RoundDiv(rate * 101, 100))>>,
          !.low = <<ToFixed4(RoundDiv(rate * 99, 100))>>]

\* updateDisplay()
UpdateDisplay(d, rate, prev) ==
    LET change == rate - prev
        changePercent == ToFixed2(RoundDiv(change * 10000, prev))
        withRate == [d EXCEPT !.rate = <<ToFixed4(rate)>>]
        withChange ==
            IF prev > 0
              THEN IF change > 0
                     THEN [withRate EXCEPT
                             !.changeClass = "change positive",
                             !.changeText = <<"up +", ToFixed4(change), " (+", changePercent, "%)">>]
                   ELSE IF change < 0
                     THEN [withRate EXCEPT
                             !.changeClass = "change negative",
                             !.changeText = <<"down ", ToFixed4(change), " (", changePercent, "%)">>]
                   ELSE [withRate EXCEPT
                             !.changeClass = "change",
                             !.changeText = <<"- No change">>]
              ELSE withRate
    IN [withChange EXCEPT
          !.high = <<ToFixed4(RoundDiv(rate * 101, 100))>>,
          !.low = <<ToFixed4(RoundDiv(rate * 99, 100))>>]

\* the page as loaded: the script has run, no chart made, no call made
InitWidget ==
    /\ currentRate = 0
    /\ previousRate = 0
    /\ chart = [made |-> FALSE, labels |-> <<>>, data |-> <<>>]
    /\ historicalData = <<>>
    /\ btn = [loading |-> FALSE, text |-> "Refresh Rate"]
    /\ lastUpdate = <<"Last updated: ", <<"Never">>>>
    /\ display = [rate |-> <<"Loading...">>, changeClass |-> "change",
                  changeText |-> <<>>, high |-> <<"-">>, low |-> <<"-">>]
    /\ converter = [usd |-> "100", cad |-> <<"0">>, listeners |-> 0]
    /\ fetches = [c \in Calls |-> "idle"]
    /\ started = 0
    /\ alerts = 0
    /\ errorLogs = 0
    /\ pushed = <<>>
    /\ lastData = NoData
    /\ varied = 0
    /\ CoreInit /\ ChildOff /\ DateOff /\ CliOff

\* initChart(ctx), made once by the page
InitChart ==
    /\ ~chart.made
    /\ \A c \in Calls : fetches[c] = "idle"
    /\ chart' = [made |-> TRUE, labels |-> <<>>, data |-> <<>>]
    /\ UNCHANGED <<currentRate, previousRate, historicalData, btn, lastUpdate,
                   display, converter, fetches, started, alerts, errorLogs,
                   pushed, lastData, varied>>
    /\ UNCHANGED notWidget

\* fetchRate(), up to `await fetch(...)`
FetchStart(c) ==
    /\ fetches[c] = "idle"
    /\ \A b \in Calls : b < c => fetches[b] # "idle"
    /\ started < MaxFetches
    /\ started' = started + 1
    /\ btn' = [loading |-> TRUE, text |-> "Updating..."]
    /\ fetches' = [fetches EXCEPT ![c] = "fetch"]
    /\ UNCHANGED <<currentRate, previousRate, chart, historicalData, lastUpdate,
                   display, converter, alerts, errorLogs, pushed, lastData, varied>>
    /\ UNCHANGED notWidget

\* fetch resolved, up to `await response.json()`
FetchResolved(c) ==
    /\ fetches[c] = "fetch"
    /\ fetches' = [fetches EXCEPT ![c] = "json"]
    /\ UNCHANGED <<currentRate, previousRate, chart, historicalData, btn,
                   lastUpdate, display, converter, started, alerts, errorLogs,
                   pushed, lastData, varied>>
    /\ UNCHANGED notWidget

\* variant: the catch block logs the error and raises no alert
FetchRejected_NoAlert(c) ==
    /\ fetches[c] \in {"fetch", "json"}
    /\ errorLogs < MaxFails
    /\ errorLogs' = errorLogs + 1
    /\ btn' = [loading |-> FALSE, text |-> "Refresh Rate"]
    /\ fetches' = [fetches EXCEPT ![c] = "idle"]
    /\ UNCHANGED <<currentRate, previousRate, chart, historicalData, lastUpdate,
                   display, converter, started, pushed, lastData, varied, alerts>>
    /\ UNCHANGED notWidget

\* fetch or response.json() rejected: catch, then finally
FetchRejected(c) ==
    /\ fetches[c] \in {"fetch", "json"}
    /\ alerts < MaxFails
    /\ errorLogs' = errorLogs + 1
    /\ alerts' = alerts + 1
    /\ btn' = [loading |-> FALSE, text |-> "Refresh Rate"]
    /\ fetches' = [fetches EXCEPT ![c] = "idle"]
    /\ UNCHANGED <<currentRate, previousRate, chart, historicalData, lastUpdate,
                   display, converter, started, pushed, lastData, varied>>
    /\ UNCHANGED notWidget

\* response.json() resolved with data: the rest of the try block, which runs
\* without a further await, then catch if a statement threw, then finally.
\* `data.rates.CAD` throws when data has no rates; updateDisplay() throws at
\* currentRate.toFixed when currentRate is undefined; updateChart() throws at
\* chart.data when chart is null, after it has pushed and shifted.
JsonResolved(c, data) ==
    /\ fetches[c] = "json"
    /\ LET plain == data = RateData(PlainRate)
           t == ClockNow
           fetched == IF data.hasCad THEN data.cad ELSE UndefinedRate
           assigned == data.hasRates
           displayed == assigned /\ fetched # UndefinedRate
           charted == displayed /\ chart.made
           prev == IF assigned THEN PreviousAfterFetch(currentRate, fetched)
                   ELSE currentRate
           hist == KeepLast(Append(historicalData,
                       [time |-> ToLocaleTimeString(t), rate |-> fetched]))
       IN /\ plain \/ varied < MaxVaried
          /\ charted \/ alerts < MaxFails
          /\ varied' = IF plain THEN varied ELSE varied + 1
          /\ lastData' = data
          /\ previousRate' = prev
          /\ currentRate' = IF assigned THEN fetched ELSE currentRate
          /\ display' = IF displayed THEN UpdateDisplay(display, fetched, prev)
                        ELSE display
          /\ historicalData' = IF displayed THEN hist ELSE historicalData
          /\ pushed' = IF displayed THEN Append(pushed, fetched) ELSE pushed
          /\ chart' = IF charted
                        THEN [chart EXCEPT
                                !.labels = [i \in DOMAIN hist |-> hist[i].time],
                                !.data = [i \in DOMAIN hist |-> hist[i].rate]]
                        ELSE chart
          /\ converter' = IF charted
                            THEN [converter EXCEPT
                                    !.listeners = converter.listeners + 1,
                                    !.cad = CadText(ParseFloat(converter.usd), fetched)]
                            ELSE converter
          /\ lastUpdate' = IF charted
                             THEN <<"Last updated: ", ToLocaleTimeString(t)>>
                             ELSE lastUpdate
          /\ errorLogs' = IF charted THEN errorLogs ELSE errorLogs + 1
          /\ alerts' = IF charted THEN alerts ELSE alerts + 1
    /\ btn' = [loading |-> FALSE, text |-> "Refresh Rate"]
    /\ fetches' = [fetches EXCEPT ![c] = "idle"]
    /\ UNCHANGED started
    /\ UNCHANGED notWidget

\* the user types v into #usdInput: every listener updateConverter() has
\* added sets #cadInput
UsdInput(v) ==
    /\ varied < MaxVaried
    /\ varied' = varied + 1
    /\ converter' = [converter EXCEPT
           !.usd = v,
           !.cad = IF converter.listeners = 0 THEN converter.cad
                   ELSE LET usd == ParseFloat(v)
                        IN CadText(IF usd.nan THEN [nan |-> FALSE, val |-> 0] ELSE usd,
                                   currentRate)]
    /\ UNCHANGED <<currentRate, previousRate, chart, historicalData, btn,
                   lastUpdate, display, fetches, started, alerts, errorLogs,
                   pushed, lastData>>
    /\ UNCHANGED notWidget

NextWidget ==
    \/ InitChart
    \/ \E c \in Calls : FetchStart(c)
    \/ \E c \in Calls : FetchResolved(c)
    \/ \E c \in Calls : FetchRejected(c)
    \/ \E c \in Calls, data \in JsonData : JsonResolved(c, data)
    \/ \E v \in UsdInputs : UsdInput(v)

SpecWidget == InitWidget /\ [][NextWidget]_vars

\* ------------------------------------------------------------------------
\* Properties of LifeRhythmAgent
\* ------------------------------------------------------------------------
IsPrefix(s, t) == Len(s) <= Len(t) /\ SubSeq(t, 1, Len(s)) = s

HasToolUse(r) == \E i \in DOMAIN r.content : r.content[i].type = "tool_use"

\* the tool-invocation requests of a response content, as (name, arguments)
RequestsOf(content) ==
    LET uses == SelectSeq(content, LAMBDA b : b.type = "tool_use")
    IN [i \in DOMAIN uses |-> [name |-> uses[i].name, arguments |-> uses[i].input]]

RECURSIVE RequestsUpTo(_, _)
\* the requests of the assistant entries among the first n messages of call p
RequestsUpTo(p, n) ==
    IF n = 0 THEN <<>>
    ELSE RequestsUpTo(p, n - 1) \o
         (IF messages[p][n].role = "assistant"
            THEN RequestsOf(messages[p][n].content) ELSE <<>>)

AllRequests(p) == RequestsUpTo(p, Len(messages[p]))

\* rounds of call p whose response was not terminal
NonTerminalRounds(p) ==
    Cardinality({i \in DOMAIN messages[p] : messages[p][i].role = "assistant"})

\* the last round of call p that was not terminal has fed its results back
RoundComplete(p) ==
    messages[p] # <<>> /\ messages[p][Len(messages[p])].role = "user"

\* C1: when MAX_TURNS rounds pass without a terminal response, process() fails
\* with the max-turns error, whose message names the cap 10, and the decision
\* service has received exactly MAX_TURNS requests of that call; it never
\* receives more than MAX_TURNS.
C1_MaxTurnsExceeded ==
    \A p \in DOMAIN pc :
        /\ Len(apiLog[p]) <= MAX_TURNS
        /\ err[p].kind = "MaxTurns" =>
              /\ pc[p] = "failed"
              /\ err[p].cap = 10
              /\ Len(apiLog[p]) = 10
              /\ NonTerminalRounds(p) = 10
        /\ (NonTerminalRounds(p) = MAX_TURNS /\ RoundComplete(p)) =>
              /\ pc[p] \in {"loop", "failed"}
              /\ pc[p] = "failed" => err[p] = [kind |-> "MaxTurns", cap |-> 10]

C1_Witness ==
    \E p \in DOMAIN pc :
        pc[p] = "failed" /\ err[p].kind = "MaxTurns" /\ Len(apiLog[p]) = MAX_TURNS

\* C2 as stated: process() on an agent on which no connect() has completed
\* fails with the not-connected error whatever the decision service answers
\* (a rejected decision request aside), also when the first response is terminal.
C2_AlwaysFailsWhenNotConnected ==
    \A p \in DOMAIN pc :
        (~connectedOk /\ pc[p] \in {"returned", "failed"} /\ extErr[p] = NoErr) =>
            (pc[p] = "failed" /\ err[p] = NotConnectedError)

\* C2 amended: on an agent that holds no client, process() fails with the
\* not-connected error only at the first tool invocation, that is when the
\* first decision response is not terminal; a terminal first response is
\* returned successfully, with no action and no tool invoked.
C2_NotConnectedAtFirstToolCall ==
    \A p \in DOMAIN pc :
        mcpClient = 0 =>
            /\ pc[p] # "awaitTool"
            /\ peerCalls[p] = <<>>
            /\ Len(apiLog[p]) <= 1
            /\ pc[p] = "returned" =>
                  /\ cur[p].stop_reason = "end_turn" \/ ~HasToolUse(cur[p])
                  /\ result[p].actions = <<>>
                  /\ bridgeCalls[p] = <<>>
                  /\ Len(apiLog[p]) = 1
            /\ pc[p] = "failed" =>
                  \/ /\ err[p] \in ApiErrors
                     /\ err[p] = extErr[p]
                     /\ cur[p] = NoResponse
                     /\ Len(apiLog[p]) = 1
                  \/ /\ err[p] = NotConnectedError
                     /\ extErr[p] = NoErr
                     /\ cur[p].stop_reason # "end_turn" /\ HasToolUse(cur[p])
                     /\ Len(apiLog[p]) = 1
                     /\ Len(bridgeCalls[p]) = 1

C2_Witness ==
    \E p \in DOMAIN pc :
        mcpClient = 0 /\ pc[p] = "returned" /\ result[p].response = <<"a", "b">>

C5_OneInvocationPerRequestInOrder ==
    \A p \in DOMAIN pc :
        LET req == AllRequests(p)
        IN /\ IsPrefix(bridgeCalls[p], req)
           /\ Len(actions[p]) <= Len(bridgeCalls[p])
           /\ Len(actions[p]) = Len(peerResults[p])
           /\ \A i \in DOMAIN actions[p] :
                  actions[p][i] = [tool |-> req[i].name,
                                   input |-> req[i].arguments,
                                   result |-> peerResults[p][i]]
           /\ RoundComplete(p) =>
                  (bridgeCalls[p] = req /\ Len(actions[p]) = Len(req))

C5_Witness ==
    \E p \in DOMAIN pc :
        /\ RoundComplete(p)
        /\ Len(messages[p]) >= 5
        /\ \E i \in DOMAIN messages[p] :
               messages[p][i].role = "assistant" /\ Len(RequestsOf(messages[p][i].content)) = 2
        /\ Len(actions[p]) >= 3

\* C6: within a process() call the action log only grows by appending, its
\* length is the number of tool invocations completed so far and its entries
\* are those invocations in the order they ran; the log returned is that log.
C6_ActionLogAppendOnly ==
    [][\A p \in DOMAIN pc :
          /\ (pc[p] # "idle" /\ pc'[p] # "idle") => IsPrefix(actions[p], actions'[p])
          /\ Len(actions'[p]) = Len(peerResults'[p])
          /\ \A i \in DOMAIN actions'[p] :
                 actions'[p][i] = [tool |-> peerCalls'[p][i].name,
                                   input |-> peerCalls'[p][i].arguments,
                                   result |-> peerResults'[p][i]]
          /\ pc'[p] = "returned" => result'[p].actions = actions'[p]]_vars

C6_Witness ==
    \E p \in DOMAIN pc :
        /\ pc[p] = "returned"
        /\ Len(result[p].actions) >= 2
        /\ \E i \in DOMAIN actions[p] : actions[p][i].result = "r2"

\* C7: the turn counter of a process() call starts at 0, goes up by exactly 1
\* with each decision-service request and at no other time, equals the number
\* of requests issued so far, and never exceeds MAX_TURNS.
C7_TurnCounter ==
    [][\A p \in DOMAIN pc :
          /\ (pc[p] = "idle" /\ pc'[p] # "idle") => turns'[p] = 0
          /\ turns'[p] = Len(apiLog'[p])
          /\ turns'[p] <= MAX_TURNS
          /\ (pc[p] # "idle" /\ pc'[p] # "idle") =>
                /\ turns'[p] \in {turns[p], turns[p] + 1}
                /\ turns'[p] = turns[p] + 1 <=> apiLog'[p] # apiLog[p]
                /\ apiLog'[p] # apiLog[p] =>
                      (IsPrefix(apiLog[p], apiLog'[p]) /\ pc'[p] = "awaitDecision")]_vars

C7_Witness ==
    \E p \in DOMAIN pc : pc[p] = "awaitDecision" /\ turns[p] = MAX_TURNS

\* C8 as stated: when the peer of a connected agent rejects a tool invocation,
\* the failure is the result of that invocation's entry in the action log and
\* process() fails with that error.
C8_ToolFailureRecorded ==
    \A p \in DOMAIN pc :
        (connectedOk /\ pc[p] = "failed" /\ extErr[p] \in PeerErrors) =>
            /\ err[p] = extErr[p]
            /\ Len(actions[p]) = Len(peerCalls[p])
            /\ actions[p][Len(actions[p])].result = extErr[p]

\* C9: a rejection of an awaited decision-service request or tool invocation
\* makes process() fail with that same error, and from then on the call makes
\* no decision-service request and no tool invocation.
C9_FailurePropagates ==
    [][\A p \in DOMAIN pc :
          /\ extErr'[p] # NoErr => (pc'[p] = "failed" /\ err'[p] = extErr'[p])
          /\ (pc[p] = "failed" /\ pc'[p] # "idle") =>
                /\ pc'[p] = "failed"
                /\ err'[p] = err[p]
                /\ apiLog'[p] = apiLog[p]
                /\ bridgeCalls'[p] = bridgeCalls[p]
                /\ peerCalls'[p] = peerCalls[p]
                /\ actions'[p] = actions[p]]_vars

C9_Witness ==
    \E p \in DOMAIN pc :
        /\ pc[p] = "failed"
        /\ err[p] \in PeerErrors
        /\ Len(bridgeCalls[p]) < Len(AllRequests(p))

\* C10 as stated: while no connect() has completed successfully (before any
\* connect(), after a failed connect(), after disconnect()), _callTool fails
\* with the not-connected error and forwards nothing to the peer.
C10_NothingForwardedUnlessConnected ==
    \A p \in DOMAIN pc :
        ~connectedOk =>
            /\ pc[p] # "awaitTool"
            /\ peerCalls[p] = <<>>
            /\ (pc[p] = "failed" /\ bridgeCalls[p] # <<>>) => err[p] = NotConnectedError

\* C11: while connected, every _callTool forwards exactly one callTool request
\* carrying the given tool name and arguments; the value the peer resolves
\* with is what the invocation yields (recorded unmodified), the error the peer
\* rejects with is the error raised, and no request is sent a second time.
C11_ForwardsOnceUnchanged ==
    [][\A p \in DOMAIN pc :
          /\ (connectedOk /\ Len(bridgeCalls'[p]) > Len(bridgeCalls[p])) =>
                /\ Len(bridgeCalls'[p]) = Len(bridgeCalls[p]) + 1
                /\ peerCalls'[p] =
                      Append(peerCalls[p], bridgeCalls'[p][Len(bridgeCalls'[p])])
                /\ LET req == AllRequests(p)[Len(bridgeCalls'[p])]
                       sent == peerCalls'[p][Len(peerCalls'[p])]
                   IN sent = req
          /\ Len(peerCalls'[p]) > Len(peerCalls[p]) =>
                Len(bridgeCalls'[p]) > Len(bridgeCalls[p])
          /\ (connectedOk /\ Len(peerResults'[p]) > Len(peerResults[p])) =>
                /\ Len(actions'[p]) = Len(actions[p]) + 1
                /\ actions'[p][Len(actions'[p])].result =
                      peerResults'[p][Len(peerResults'[p])]
          /\ (connectedOk /\ extErr'[p] \in PeerErrors /\ extErr[p] = NoErr) =>
                (pc'[p] = "failed" /\ err'[p] = extErr'[p])]_vars

C11_Witness ==
    \E p \in DOMAIN pc :
        /\ connectedOk
        /\ pc[p] = "failed"
        /\ err[p] \in PeerErrors
        /\ Len(peerCalls[p]) = 2
        /\ Len(peerResults[p]) = 1
        /\ peerCalls[p][2].name = "add_reminder"

\* C12: disconnect() is idempotent.  Called while no client is held it
\* resolves and changes nothing; whenever a disconnect() has resolved the
\* agent holds no client; close() is only ever sent to a session that is not
\* closed yet, and a closed session stays closed.
C12_DisconnectIdempotent ==
    [][/\ (lc' = "idle" /\ dres' = "resolved") =>
              (mcpClient' = 0 /\ ~connectedOk')
       /\ (mcpClient = 0 /\ lc = "idle" /\ dres' # "none") =>
              /\ dres' = "resolved"
              /\ UNCHANGED <<mcpClient, tools, cstate, nextClient, lc, connectedOk>>
       /\ mcpClient = 0 => lc' # "closing"
       /\ (lc # "closing" /\ lc' = "closing") => cstate[mcpClient] # "closed"
       /\ \A c \in DOMAIN cstate :
              cstate[c] = "closed" => cstate'[c] = "closed"]_vars

C12_Witness ==
    /\ lc = "idle"
    /\ dres = "resolved"
    /\ mcpClient = 0
    /\ ~connectedOk
    /\ nextClient > MaxClients
    /\ \A c \in DOMAIN cstate : c < MaxClients => cstate[c] = "closed"

\* C14: when the first decision of a call is terminal, the call returns an
\* empty action log and has invoked no tool; the response of every returned
\* call is the trimmed concatenation, in order and without separator, of the
\* text segments of the terminal decision and of nothing else.
C14_TerminalResponseText ==
    \A p \in DOMAIN pc :
        pc[p] = "returned" =>
            /\ IsTerminal(cur[p])
            /\ cur[p] = RespTwoTexts => result[p].response = <<"a", "b">>
            /\ cur[p] = RespMaxTokens => result[p].response = <<"c">>
            /\ cur[p] = RespEndWithTool => result[p].response = <<"e">>
            /\ turns[p] = 1 =>
                  /\ result[p].actions = <<>>
                  /\ bridgeCalls[p] = <<>>
                  /\ peerCalls[p] = <<>>

C14_Witness ==
    \E p \in DOMAIN pc :
        /\ pc[p] = "returned"
        /\ turns[p] = 1
        /\ cur[p] = RespTwoTexts
        /\ result[p] = [response |-> <<"a", "b">>, actions |-> <<>>]

WeekdayLines == SelectSeq(dateContext, LAMBDA l : l.kind = "weekday")
DayOfIso(iso) == MonthStart(iso.month) + iso.date - 1
\* the date of the 'Today is ... (YYYY-MM-DD)' line
TodayDay == DayOfIso(dateContext[2].date)

\* C15 as stated: for every reference instant the context has exactly 7
\* weekday lines, Sunday to Saturday in this order, and the date of each line
\* is on or before the reference date and at most 6 days before it.
C15_SevenLinesWithinSixDays ==
    dateContext # <<>> =>
        /\ Len(WeekdayLines) = 7
        /\ \A i \in 1..Len(WeekdayLines) :
              /\ WeekdayLines[i].name = Weekdays[i]
              /\ DayOfIso(WeekdayLines[i].date) <= TodayDay
              /\ TodayDay - DayOfIso(WeekdayLines[i].date) <= 6

\* C16 as stated: for every reference instant and every weekday W the date
\* on the line of W is the most recent date on or before the reference date
\* that falls on W, and the line of the reference instant's own weekday shows
\* the date of the 'Today is' line.
C16_MostRecentDateOfWeekday ==
    dateContext # <<>> =>
        /\ \A i \in 1..Len(WeekdayLines) :
              LET day == DayOfIso(WeekdayLines[i].date)
              IN /\ Weekdays[WeekdayIndex(day) + 1] = WeekdayLines[i].name
                 /\ day <= TodayDay
                 /\ TodayDay - day <= 6
        /\ \A i \in 1..Len(WeekdayLines) :
              WeekdayLines[i].name = dateContext[2].readable[1] =>
                  WeekdayLines[i].date = dateContext[2].date

\* ------------------------------------------------------------------------
\* Properties of the command line
\* ------------------------------------------------------------------------
\* C17: when connect() fails the process exits with code 1 and process() is
\* never called; in single-shot mode a failed process() makes the process
\* exit with code 1; in interactive mode a failed process() is reported, the
\* process keeps running and the interface is prompting for the next line.
C17_ExitCodes ==
    [][/\ connRes' = "failed" =>
              (exitCode' = 1 /\ calls' = 0 /\ cpc' = "exited")
       /\ (argv = "single" /\ outcomes' # outcomes
              /\ outcomes'[Len(outcomes')] = "failed") =>
              (exitCode' = 1 /\ cpc' = "exited" /\ out' = Append(out, "error"))
       /\ (argv = "interactive" /\ outcomes' # outcomes
              /\ outcomes'[Len(outcomes')] = "failed") =>
              /\ exitCode' = NotExited
              /\ cpc' = "interactive"
              /\ rl' = "open"
              /\ out' = out \o <<"error", "prompt">>]_vars

C17_Witness ==
    /\ argv = "interactive"
    /\ outcomes = <<"failed", "ok">>
    /\ calls = 2
    /\ exitCode = NotExited

\* ------------------------------------------------------------------------
\* Properties of the widget
\* ------------------------------------------------------------------------
Min(a, b) == IF a < b THEN a ELSE b
\* the last n entries of the sequence s
LastOf(s, n) == SubSeq(s, Len(s) - n + 1, Len(s))
\* a step in which a fetchRate() call runs its try block to the end
FetchSucceeds == converter'.listeners = converter.listeners + 1

\* C18: after n updateChart() calls from an empty history, historicalData has
\* min(n, 20) entries, which hold the rates of the last min(n, 20) calls in
\* call order; when updateChart() returns, the labels and the dataset of the
\* chart are the times and the rates of historicalData, entry for entry.
C18_HistoryKeepsLastTwenty ==
    [][/\ Len(historicalData') = Min(Len(pushed'), HistoryCap)
       /\ [i \in DOMAIN historicalData' |-> historicalData'[i].rate]
             = LastOf(pushed', Min(Len(pushed'), HistoryCap))
       /\ (pushed' # pushed /\ chart'.made) =>
             /\ Len(chart'.labels) = Len(historicalData')
             /\ Len(chart'.data) = Len(historicalData')
             /\ \A i \in DOMAIN historicalData' :
                   /\ chart'.labels[i] = historicalData'[i].time
                   /\ chart'.data[i] = historicalData'[i].rate]_vars

C18_Witness ==
    /\ Len(pushed) = HistoryCap + 2
    /\ Len(historicalData) = HistoryCap
    /\ pushed[1] = PlainRate
    /\ pushed[3] # PlainRate
    /\ historicalData[1].rate = pushed[3]
    /\ chart.data[1] = pushed[3]
    /\ chart.labels[HistoryCap] = ToLocaleTimeString(HistoryCap + 1)

\* C19: a fetchRate() call that succeeds leaves previousRate at the value
\* currentRate had just before the update, currentRate at the CAD rate that
\* was fetched, and historicalData longer by exactly one point, the last one,
\* which carries the new rate (the oldest point leaves when the cap is hit).
C19_SuccessfulFetchUpdatesRates ==
    [][FetchSucceeds =>
          /\ previousRate' = currentRate
          /\ lastData'.hasRates /\ lastData'.hasCad
          /\ currentRate' = lastData'.cad
          /\ pushed' = Append(pushed, currentRate')
          /\ \E e \in {historicalData'[Len(historicalData')]} :
                /\ e.rate = currentRate'
                /\ historicalData' =
                      IF Len(historicalData) < HistoryCap
                        THEN Append(historicalData, e)
                        ELSE Append(Tail(historicalData), e)]_vars

C19_Witness ==
    /\ converter.listeners = 2
    /\ previousRate = PlainRate
    /\ currentRate # PlainRate
    /\ currentRate = lastData.cad
    /\ Len(historicalData) = 2
    /\ historicalData[1].rate = previousRate
    /\ historicalData[2].rate = currentRate

\* C20 as stated: at every moment the refresh button is in the loading state
\* (class 'loading', text 'Updating...') exactly when at least one fetchRate()
\* call is in flight, also when calls overlap.
C20_LoadingIffInFlight ==
    LET inFlight == \E c \in DOMAIN fetches : fetches[c] # "idle"
    IN /\ btn.loading <=> inFlight
       /\ btn.text = IF inFlight THEN "Updating..." ELSE "Refresh Rate"

\* a step in which a fetchRate() call settles
FetchSettles == \E c \in DOMAIN fetches : fetches[c] # "idle" /\ fetches'[c] = "idle"

\* C21: the 'Last updated' text changes only in a step in which a fetchRate()
\* call succeeds; a call that fails leaves the text as it was, raises exactly
\* one alert and writes exactly one error log, and settles like any other
\* call (the button is restored, nothing is thrown to the caller); a call
\* that succeeds raises no alert and writes no error log.
C21_LastUpdateOnlyOnSuccess ==
    [][/\ lastUpdate' # lastUpdate => FetchSucceeds
       /\ (FetchSettles /\ ~FetchSucceeds) =>
             /\ lastUpdate' = lastUpdate
             /\ alerts' = alerts + 1
             /\ errorLogs' = errorLogs + 1
             /\ btn' = [loading |-> FALSE, text |-> "Refresh Rate"]
       /\ FetchSucceeds =>
             /\ FetchSettles
             /\ lastUpdate' = <<"Last updated: ", ToLocaleTimeString(Len(pushed))>>
             /\ alerts' = alerts
             /\ errorLogs' = errorLogs
       /\ ~FetchSettles => (alerts' = alerts /\ errorLogs' = errorLogs)]_vars

C21_Witness ==
    /\ alerts = 1
    /\ errorLogs = 1
    /\ lastData = NoRatesData
    /\ lastUpdate = <<"Last updated: ", ToLocaleTimeString(1)>>
    /\ Len(pushed) = 2
    /\ \A c \in DOMAIN fetches : fetches[c] = "idle"

\* C22: when updateDisplay() runs with previousRate > 0 the change indicator
\* has class 'change positive' if currentRate is greater than previousRate,
\* 'change negative' if it is smaller, and 'change' with the text 'No change'
\* if they are equal; when it runs with previousRate not above 0 (first load)
\* the class and the text of the indicator stay as they were.
C22_ChangeIndicator ==
    [][pushed' # pushed =>
          /\ display'.rate = <<ToFixed4(currentRate')>>
          /\ IF previousRate' > 0
               THEN /\ currentRate' > previousRate' =>
                          display'.changeClass = "change positive"
                    /\ currentRate' < previousRate' =>
                          display'.changeClass = "change negative"
                    /\ currentRate' = previousRate' =>
                          /\ display'.changeClass = "change"
                          /\ display'.changeText = <<"- No change">>
               ELSE /\ display'.changeClass = display.changeClass
                    /\ display'.changeText = display.changeText]_vars

C22_Witness ==
    /\ display.changeClass = "change negative"
    /\ previousRate > currentRate
    /\ currentRate = PlainRate
    /\ display.changeText[2] = ToFixed4(PlainRate - previousRate)
    /\ Len(pushed) = 3

\* decision requests of call p sent and not yet answered or rejected
DecisionsInFlight(p) ==
    Len(apiLog[p]) - NonTerminalRounds(p)
        - (IF pc[p] = "returned" THEN 1 ELSE 0)
        - (IF extErr[p] \in ApiErrors THEN 1 ELSE 0)

\* tool invocations of call p handed to the peer and not yet resolved or rejected
ToolsInFlight(p) ==
    Len(peerCalls[p]) - Len(peerResults[p])
        - (IF extErr[p] \in PeerErrors THEN 1 ELSE 0)

\* C23: within one process() call at most one external operation (decision
\* request or tool invocation) is in flight at any time; a tool invocation is
\* issued only when every earlier invocation of the call has completed and its
\* result has been gathered, and the decision request of the next round is
\* issued only when every tool request of the rounds before it has been invoked,
\* has completed, and its result has been fed back into the session.
C23_OneOperationInFlight ==
    /\ [](\A p \in DOMAIN pc :
            /\ DecisionsInFlight(p) \in {0, 1}
            /\ ToolsInFlight(p) \in {0, 1}
            /\ DecisionsInFlight(p) + ToolsInFlight(p) <= 1)
    /\ [][\A p \in DOMAIN pc :
            /\ Len(peerCalls'[p]) > Len(peerCalls[p]) =>
                  /\ Len(peerCalls'[p]) = Len(peerCalls[p]) + 1
                  /\ DecisionsInFlight(p) = 0 /\ ToolsInFlight(p) = 0
                  /\ Len(peerResults[p]) = Len(peerCalls[p])
                  /\ Len(actions[p]) = Len(peerCalls[p])
            /\ Len(apiLog'[p]) > Len(apiLog[p]) =>
                  /\ Len(apiLog'[p]) = Len(apiLog[p]) + 1
                  /\ DecisionsInFlight(p) = 0 /\ ToolsInFlight(p) = 0
                  /\ RoundComplete(p)
                  /\ Len(peerCalls[p]) = Len(AllRequests(p))
                  /\ Len(peerResults[p]) = Len(AllRequests(p))
                  /\ Len(actions[p]) = Len(AllRequests(p))
                  /\ Len(apiLog[p]) > 0 =>
                        Len(messages[p][Len(messages[p])].content) =
                            Len(RequestsOf(messages[p][Len(messages[p]) - 1].content))]_vars

\* the second invocation of a two-request round is pending at the peer, the
\* first one's result gathered, in the second round of the call
C23_Witness ==
    \E p \in DOMAIN pc :
        /\ pc[p] = "awaitTool" /\ idx[p] = 2 /\ turns[p] = 2
        /\ ToolsInFlight(p) = 1 /\ DecisionsInFlight(p) = 0
        /\ Len(peerResults[p]) = 2 /\ Len(toolResults[p]) = 1

\* the tool_use blocks of the assistant entry i of call p
UsesAt(p, i) == ToolUseBlocks(messages[p][i].content)

\* C24: the message sequence of a process() call is append-only; it starts with
\* exactly one user entry (the date context followed by the utterance); each
\* completed non-terminal round adds exactly one assistant entry holding the raw
\* response content and then exactly one user entry holding one tool-result per
\* tool request of that response, in request order, each with its request's
\* correlation id; the decision request of round k sees 2k-1 entries, whose
\* roles alternate user/assistant.
C24_MessagesAppendOnly ==
    /\ [](\A p \in DOMAIN pc : pc[p] # "idle" =>
            /\ Len(messages[p]) >= 1
            /\ messages[p][1].role = "user"
            /\ Len(messages[p][1].content) = 2
            /\ messages[p][1].content[1] = "DATE CONTEXT"
            /\ messages[p][1].content[2] \in Utterances
            /\ \A i \in DOMAIN messages[p] :
                  messages[p][i].role = (IF i % 2 = 1 THEN "user" ELSE "assistant")
            /\ \A i \in DOMAIN messages[p] : i % 2 = 0 =>
                  /\ \E r \in Responses : ~IsTerminal(r) /\ messages[p][i].content = r.content
                  /\ i + 1 \in DOMAIN messages[p] =>
                        /\ Len(messages[p][i + 1].content) = Len(UsesAt(p, i))
                        /\ \A j \in DOMAIN UsesAt(p, i) :
                              /\ messages[p][i + 1].content[j].type = "tool_result"
                              /\ messages[p][i + 1].content[j].tool_use_id = UsesAt(p, i)[j].id
            /\ \A k \in DOMAIN apiLog[p] : apiLog[p][k].nmessages = 2 * k - 1)
    /\ [][\A p \in DOMAIN pc :
            /\ (pc[p] # "idle" /\ pc'[p] # "idle") =>
                  /\ IsPrefix(messages[p], messages'[p])
                  /\ Len(messages'[p]) <= Len(messages[p]) + 1
            /\ (pc[p] = "idle" /\ pc'[p] # "idle") => Len(messages'[p]) = 1
            /\ (pc[p] = "awaitDecision" /\ Len(messages'[p]) > Len(messages[p])) =>
                  messages'[p][Len(messages'[p])] =
                      [role |-> "assistant", content |-> cur'[p].content]
            /\ (pc[p] = "awaitTool" /\ Len(messages'[p]) > Len(messages[p])) =>
                  /\ pc'[p] = "loop"
                  /\ messages'[p][Len(messages'[p])] =
                        [role |-> "user", content |-> toolResults'[p]]
            /\ (pc[p] = "awaitTool" /\ pc'[p] = "loop") =>
                  Len(messages'[p]) = 2 * turns[p] + 1]_vars

\* two rounds completed, the second with two requests: five entries, the last
\* one holding the two results with the ids 1 and 2 in request order, and the
\* third decision request has seen all five
C24_Witness ==
    \E p \in DOMAIN pc :
        /\ pc[p] = "awaitDecision" /\ Len(apiLog[p]) = 3
        /\ apiLog[p][3].nmessages = 5 /\ Len(messages[p]) = 5
        /\ messages[p][4].content = RespTool2.content
        /\ Len(messages[p][5].content) = 2
        /\ messages[p][5].content[1].tool_use_id = 1
        /\ messages[p][5].content[2].tool_use_id = 2

\* C25 as stated: in interactive mode at most one process() call is in flight
\* at any time; a 'line' event delivered while the previous utterance is still
\* being processed does not start a second, overlapping call.
C25_AtMostOneInFlight == inflight <= 1

\* the peer sessions that are open
OpenSessions == {c \in DOMAIN cstate : cstate[c] = "open"}

\* C30 as stated: across any sequence of connect() and disconnect() calls,
\* connect() twice in a row and failing connects included, at most one peer
\* session is open at any time, and a session no longer held by the agent has
\* been closed.
C30_AtMostOneSession ==
    /\ Cardinality(OpenSessions) <= 1
    /\ \A c \in OpenSessions : c = mcpClient

\* C26: process() never modifies the connection state of the agent nor its
\* cached tool-descriptor list; the list is set only by a connect() that
\* completes, to the descriptors its peer listed; every decision request
\* carries the list the agent holds, which for a connected agent is the list
\* its last connect() returned.
C26_ToolsSetOnlyByConnect ==
    [][/\ (procVars' # procVars \/ envVars' # envVars) =>
              UNCHANGED <<mcpClient, tools, cstate, nextClient, lc, connectedOk>>
       /\ tools' # tools =>
              /\ lc = "listing" /\ lc' = "idle" /\ connectedOk'
              /\ tools' = MapTools(PeerTools(mcpClient))
       /\ connectedOk' => tools' = MapTools(PeerTools(mcpClient'))
       /\ \A p \in DOMAIN pc :
              /\ Len(apiLog'[p]) > Len(apiLog[p]) =>
                    apiLog'[p][Len(apiLog'[p])].tools = tools
              /\ \A k \in DOMAIN apiLog'[p] : apiLog'[p][k].tools = tools']_vars

\* a second connect() replaced the list of the first, and the call under way
\* has sent two requests, both with the list of the second
C26_Witness ==
    \E p \in DOMAIN pc :
        /\ connectedOk /\ mcpClient = 2 /\ tools = MapTools(PeerTools(2))
        /\ tools # MapTools(PeerTools(1))
        /\ Len(apiLog[p]) = 2 /\ pc[p] = "awaitDecision"
        /\ apiLog[p][1].tools = tools /\ apiLog[p][2].tools = tools

\* C29: when process() fails with the max-turns error, every tool request of
\* all MAX_TURNS rounds has been invoked on the bridge and has completed, the
\* requests of the final round included; the results of the final round are
\* appended to the session as its last entry, which no decision request has
\* seen, and nothing is returned to the caller.
C29_FinalRoundInvoked ==
    \A p \in DOMAIN pc :
        (pc[p] = "failed" /\ err[p].kind = "MaxTurns") =>
            /\ turns[p] = MAX_TURNS
            /\ Len(apiLog[p]) = MAX_TURNS
            /\ NonTerminalRounds(p) = MAX_TURNS
            /\ Len(messages[p]) = 2 * MAX_TURNS + 1
            /\ bridgeCalls[p] = AllRequests(p)
            /\ peerCalls[p] = AllRequests(p)
            /\ Len(peerResults[p]) = Len(AllRequests(p))
            /\ [i \in DOMAIN actions[p] |-> actions[p][i].result] = peerResults[p]
            /\ LET n == Len(messages[p])
                   uses == ToolUseBlocks(messages[p][n - 1].content)
               IN /\ messages[p][n - 1].role = "assistant"
                  /\ messages[p][n].role = "user"
                  /\ Len(uses) >= 1
                  /\ Len(messages[p][n].content) = Len(uses)
                  /\ \A j \in DOMAIN uses :
                        /\ messages[p][n].content[j].tool_use_id = uses[j].id
                        /\ messages[p][n].content[j].content
                              = Stringify(peerResults[p][Len(peerResults[p]) - Len(uses) + j])
                  /\ \A k \in DOMAIN apiLog[p] : apiLog[p][k].nmessages < n
            /\ result[p] = [response |-> <<>>, actions |-> <<>>]

\* the call failed with the max-turns error after a final round of two
\* requests, both invoked
C29_Witness ==
    \E p \in DOMAIN pc :
        /\ pc[p] = "failed" /\ err[p] = MaxTurnsExceededError
        /\ cur[p] = RespTool2
        /\ Len(bridgeCalls[p]) = MAX_TURNS + 1
        /\ Len(messages[p][2 * MAX_TURNS + 1].content) = 2

\* call p is under way
InProcess(p) == pc[p] \in {"loop", "awaitDecision", "callTool", "awaitTool"}

\* C28: provided every awaited decision request and tool invocation completes,
\* each process() call eventually returns or fails; when none of the awaited
\* operations of the call fails (no rejected decision request, no rejected or
\* refused tool invocation), it returns successfully exactly when one of the
\* first MAX_TURNS decision responses is terminal, a terminal response on the
\* MAX_TURNS-th round included, and otherwise fails with the max-turns error.
C28_EventuallyReturnsOrFails ==
    /\ \A p \in Procs : InProcess(p) ~> pc[p] \in {"returned", "failed"}
    /\ [](\A p \in Procs :
            /\ pc[p] = "returned" =>
                  /\ IsTerminal(cur[p]) /\ Len(apiLog[p]) <= MAX_TURNS
                  /\ NonTerminalRounds(p) = Len(apiLog[p]) - 1
            /\ (pc[p] = "failed" /\ extErr[p] = NoErr /\ err[p] # NotConnectedError) =>
                  /\ err[p] = MaxTurnsExceededError
                  /\ Len(apiLog[p]) = MAX_TURNS
                  /\ NonTerminalRounds(p) = MAX_TURNS)
    /\ [][\A p \in Procs :
            /\ (pc[p] = "awaitDecision" /\ pc'[p] # "failed") =>
                  (pc'[p] = "returned" <=> IsTerminal(cur'[p]))
            /\ (pc[p] = "loop" /\ pc'[p] = "failed") =>
                  (NonTerminalRounds(p) = MAX_TURNS /\ err'[p] = MaxTurnsExceededError)
            /\ (pc[p] = "loop" /\ NonTerminalRounds(p) < MAX_TURNS) =>
                  pc'[p] = "awaitDecision"]_vars

\* the response of the MAX_TURNS-th round was terminal and the call returned
C28_Witness ==
    \E p \in Procs :
        /\ pc[p] = "returned" /\ turns[p] = MAX_TURNS /\ Len(apiLog[p]) = MAX_TURNS
        /\ NonTerminalRounds(p) = MAX_TURNS - 1
        /\ err[p] = NoErr /\ extErr[p] = NoErr

\* the invocations call p has made and whose results it has gathered, as the
\* bridge and the peer saw them
InvocationsOf(p) ==
    [i \in DOMAIN peerResults[p] |->
        [tool |-> bridgeCalls[p][i].name,
         input |-> bridgeCalls[p][i].arguments,
         result |-> peerResults[p][i]]]

\* C27: every process() call starts from a fresh session (empty action log,
\* turn counter 0, single-entry message sequence) whatever calls were made
\* before or are under way on the same agent; a step of one call leaves the
\* session of every other call as it is; the actions a call returns are
\* exactly the invocations that call made, in its own order, also when the
\* invocations of two calls interleave.
C27_SessionsIndependent ==
    /\ [](\A p \in DOMAIN pc :
            /\ pc[p] # "idle" => actions[p] = InvocationsOf(p)
            /\ pc[p] = "returned" => result[p].actions = InvocationsOf(p))
    /\ [][\A p \in DOMAIN pc :
            /\ (pc[p] = "idle" /\ pc'[p] # "idle") =>
                  /\ actions'[p] = <<>> /\ turns'[p] = 0
                  /\ Len(messages'[p]) = 1
                  /\ messages'[p][1].role = "user"
                  /\ messages'[p][1].content[2] \in Utterances
            /\ pc'[p] # pc[p] =>
                  \A q \in DOMAIN pc \ {p} :
                      /\ messages'[q] = messages[q] /\ actions'[q] = actions[q]
                      /\ turns'[q] = turns[q] /\ pc'[q] = pc[q]
                      /\ toolResults'[q] = toolResults[q] /\ result'[q] = result[q]
                      /\ bridgeCalls'[q] = bridgeCalls[q]
                      /\ peerResults'[q] = peerResults[q]]_vars

\* both calls have an invocation pending at the peer at the same time; call 1
\* has gathered the result of an earlier one; call 2 was started after an
\* earlier call on the same agent had returned its own actions
C27_Witness ==
    /\ pc[1] = "awaitTool" /\ pc[2] = "awaitTool"
    /\ Len(actions[1]) = 1 /\ actions[1] = InvocationsOf(1) /\ idx[1] = 2
    /\ actions[2] = <<>> /\ Len(peerCalls[2]) = 1

\* C31 as stated: a fetchRate() call that fails at any point (fetch rejected,
\* body not parseable, or response lacking rates.CAD) leaves currentRate,
\* previousRate and historicalData exactly as they were before the call.
C31_FailedFetchLeavesRates ==
    [][(FetchSettles /\ ~FetchSucceeds) =>
           UNCHANGED <<currentRate, previousRate, historicalData>>]_vars
====
